---- MODULE Spec2Model ----
(***************************************************************************)
(* Valuation calculation engine of DSE-Value-Investors                     *)
(*   backend/app/calculations/big_five.py      (BigFiveCalculator)         *)
(*   backend/app/calculations/sticker_price.py (StickerPriceCalculator)    *)
(*   backend/app/calculations/four_ms.py       (FourMsEvaluator)           *)
(*                                                                         *)
(* The calculators are pure functions.  A behaviour is a sequence of       *)
(* calls: from the idle state a caller invokes one operation with          *)
(* arguments drawn from bounded sets, the state then holds the arguments   *)
(* and the value returned (or the exception raised), and Return goes back  *)
(* to idle.                                                                *)
(*                                                                         *)
(* Representation of Python values                                         *)
(*   Optional[x] : None is <<>>, a present value x is <<x>>.               *)
(*   float       : exact arithmetic.  A compound growth rate               *)
(*                 times * ((e/s)^(1/n) - 1) is the record                 *)
(*                 [e, s, n, times]; a quotient is the record [num, den];  *)
(*                 comparisons with the code's thresholds are made by      *)
(*                 cross multiplication, so no rounding is introduced.     *)
(*                 (IEEE rounding of a value lying exactly on a threshold, *)
(*                 such as a weighted score of 39.99999999999999 for an    *)
(*                 exact 40, is not modelled.)                             *)
(***************************************************************************)
EXTENDS Integers, Sequences, FiniteSets, TLC

VARIABLES
    op, args, ret,          \* the call made by a single caller and its outcome
    heap, frames, store,    \* objects shared by concurrent callers, each
                            \* caller's position and call, the local variables
    db,                     \* tables financial_data and stocks
    valuation_progress,     \* routers/calculator.py _valuation_progress
    requests,               \* refresh-valuations requests being handled
    tasks,                  \* their background tasks
    us_scrape_progress,     \* routers/us_stocks.py _us_scrape_progress
    scrape_requests,        \* trigger-scrape and stop-scrape requests
    scrape_tasks            \* the background scrape tasks

threadvars == <<heap, frames, store>>

refreshvars == <<db, valuation_progress, requests, tasks>>

scrapevars == <<us_scrape_progress, scrape_requests, scrape_tasks>>

servervars == <<refreshvars, scrapevars>>

vars == <<op, args, ret, threadvars, servervars>>

(***************************************************************************)
(* Python helpers                                                          *)
(***************************************************************************)
None == <<>>

Some(x) == <<x>>

IsNone(v) == v = <<>>

Val(v) == v[1]

\* "v and v > 0" : None and 0 are falsy
Truthy(v) == ~IsNone(v) /\ Val(v) # 0

IsPos(v) == Truthy(v) /\ Val(v) > 0

IsNeg(v) == Truthy(v) /\ Val(v) < 0

RECURSIVE Pow(_, _)
Pow(b, k) == IF k = 0 THEN 1 ELSE b * Pow(b, k - 1)

RECURSIVE SeqSum(_)
SeqSum(s) == IF s = <<>> THEN 0 ELSE Head(s) + SeqSum(Tail(s))

\* the indices of the strictly positive entries, in increasing order
PositiveIndices(s) == SelectSeq([i \in 1..Len(s) |-> i], LAMBDA i : IsPos(s[i]))

\* all sequences over S of length at most n
SeqsUpTo(S, n) == UNION {[1..k -> S] : k \in 0..n}

(***************************************************************************)
(* Exact fractions [num, den], den > 0, in lowest terms                    *)
(***************************************************************************)
Abs(x) == IF x < 0 THEN -x ELSE x

RECURSIVE GCD(_, _)
GCD(a, b) == IF b = 0 THEN a ELSE GCD(b, a % b)

Rat(n, d) ==
    LET g == GCD(Abs(n), Abs(d))
        k == IF d < 0 THEN -g ELSE g
    IN  [num |-> n \div k, den |-> d \div k]

Whole(n) == [num |-> n, den |-> 1]

RatMul(a, b) ==
    LET g1 == GCD(Abs(a.num), b.den)
        g2 == GCD(Abs(b.num), a.den)
    IN  IF a.num = 0 \/ b.num = 0 THEN Whole(0)
        ELSE [num |-> (a.num \div g1) * (b.num \div g2),
              den |-> (a.den \div g2) * (b.den \div g1)]

\* a / b for b # 0
RatDiv(a, b) ==
    RatMul(a, IF b.num < 0 THEN [num |-> -b.den, den |-> -b.num]
              ELSE [num |-> b.den, den |-> b.num])

RatAdd(a, b) ==
    LET g == GCD(a.den, b.den)
    IN  Rat(a.num * (b.den \div g) + b.num * (a.den \div g), (a.den \div g) * b.den)

RatSub(a, b) == RatAdd(a, [num |-> -b.num, den |-> b.den])

RatLT(a, b) == a.num * b.den < b.num * a.den

RatLE(a, b) == a.num * b.den <= b.num * a.den

RatMin(a, b) == IF RatLE(a, b) THEN a ELSE b

RatMax(a, b) == IF RatLE(b, a) THEN a ELSE b

(***************************************************************************)
(* big_five.py                                                             *)
(***************************************************************************)
STRONG_THRESHOLD == Rat(15, 100)

PASS_THRESHOLD == Rat(10, 100)

WEAK_THRESHOLD == Rat(5, 100)

\* the float (end/start) ** (1/span) - 1
Growth(start, end, span) ==
    [e |-> end, s |-> start, n |-> span, times |-> 1, dp |-> None]

\* the float 0.0 returned on the degenerate paths
ZeroRate == [e |-> 1, s |-> 1, n |-> 1, times |-> 1, dp |-> None]

\* c >= t for a rate c and a fraction t:  (e/s)^(1/n) >= (den+num)/den
RateGE(c, t) == c.e * Pow(t.den, c.n) >= c.s * Pow(t.den + t.num, c.n)

RateIsZero(c) == c.e = c.s

\* cagr * 100
TimesHundred(c) == [c EXCEPT !.times = 100 * c.times]

\* round(x, 2)
Round2(c) == [c EXCEPT !.dp = Some(2)]

\* variant of year_span that counts the surviving points instead
year_span_by_count(values, years_list, valid_data) == Len(valid_data) - 1

\* year_span of calculate_cagr: the fiscal years of the first and last
\* surviving point when the tuples carry years, their indices otherwise
year_span(values, years_list, valid_data) ==
    LET first_idx == valid_data[1]
        last_idx  == valid_data[Len(valid_data)]
    IN  IF years_list # <<>> /\ Len(years_list) = Len(values)
        THEN years_list[last_idx] - years_list[first_idx]
        ELSE last_idx - first_idx

BigFive_calculate_cagr(values, years_list) ==
    IF Len(values) < 2 THEN ZeroRate
    ELSE
      LET valid_data == PositiveIndices(values)
      IN  IF Len(valid_data) < 2 THEN ZeroRate
          ELSE
            LET start_value == Val(values[valid_data[1]])
                end_value   == Val(values[valid_data[Len(valid_data)]])
                span        == year_span(values, years_list, valid_data)
            IN  IF span <= 0 \/ start_value <= 0 THEN ZeroRate
                ELSE Growth(start_value, end_value, span)

\* variant of pattern_of whose lower boundary is exclusive
pattern_of_exclusive(negative, total_valid) ==
    IF 10 * negative >= 7 * total_valid THEN "negative"
    ELSE IF 10 * negative > 3 * total_valid THEN "inconsistent"
    ELSE "normal"

\* the pattern chosen from neg_ratio = negative / total_valid (total_valid > 0)
pattern_of(negative, total_valid) ==
    IF 10 * negative >= 7 * total_valid THEN "negative"
    ELSE IF 10 * negative >= 3 * total_valid THEN "inconsistent"
    ELSE "normal"

analyze_values(values) ==
    IF values = <<>>
    THEN [pattern |-> "no_data", positive |-> 0, negative |-> 0, zero_null |-> 0]
    ELSE
      LET positive    == Len(SelectSeq(values, IsPos))
          negative    == Len(SelectSeq(values, IsNeg))
          zero_null   == Len(SelectSeq(values, LAMBDA v : ~Truthy(v)))
          total_valid == positive + negative
      IN  IF total_valid = 0
          THEN [pattern |-> "no_data", positive |-> 0, negative |-> 0,
                zero_null |-> Len(values)]
          ELSE [pattern   |-> pattern_of(negative, total_valid),
                positive  |-> positive,
                negative  |-> negative,
                zero_null |-> zero_null]

\* c > t, the strict form of RateGE
RateGT(c, t) == c.e * Pow(t.den, c.n) > c.s * Pow(t.den + t.num, c.n)

\* variant of growth_status with exclusive thresholds
growth_status_exclusive(cagr) ==
    IF RateGT(cagr, STRONG_THRESHOLD) THEN [status |-> "STRONG", passes |-> TRUE]
    ELSE IF RateGT(cagr, PASS_THRESHOLD) THEN [status |-> "PASS", passes |-> TRUE]
    ELSE IF RateGT(cagr, WEAK_THRESHOLD) THEN [status |-> "WEAK", passes |-> FALSE]
    ELSE [status |-> "FAIL", passes |-> FALSE]

\* the STRONG / PASS / WEAK / FAIL ladder of _evaluate_growth
growth_status(cagr) ==
    IF RateGE(cagr, STRONG_THRESHOLD) THEN [status |-> "STRONG", passes |-> TRUE]
    ELSE IF RateGE(cagr, PASS_THRESHOLD) THEN [status |-> "PASS", passes |-> TRUE]
    ELSE IF RateGE(cagr, WEAK_THRESHOLD) THEN [status |-> "WEAK", passes |-> FALSE]
    ELSE [status |-> "FAIL", passes |-> FALSE]

\* variant of inconsistent_metric that lets the rate decide passes
inconsistent_metric_by_rate(cagr) ==
    [cagr |-> cagr, cagr_pct |-> Some(TimesHundred(cagr)),
     passes |-> RateGE(cagr, PASS_THRESHOLD),
     status |-> "INCONSISTENT",
     note |-> Some("Fluctuating between positive and negative years")]

\* the GrowthMetric returned for the "inconsistent" pattern
inconsistent_metric(cagr) ==
    [cagr |-> cagr, cagr_pct |-> Some(TimesHundred(cagr)), passes |-> FALSE,
     status |-> "INCONSISTENT",
     note |-> Some("Fluctuating between positive and negative years")]

evaluate_growth(name, values, years_list) ==
    LET years    == IF Len(values) > 1 THEN Len(values) - 1 ELSE 0
        analysis == analyze_values(values)
        cagr     == BigFive_calculate_cagr(values, years_list)
        base     == [name |-> name, values |-> values, years |-> years]
    IN  IF analysis.pattern = "no_data"
        THEN base @@ [cagr |-> ZeroRate, cagr_pct |-> None, passes |-> FALSE,
                      status |-> "NO_DATA",
                      note |-> Some("Insufficient data to calculate growth rate")]
        ELSE IF analysis.pattern = "negative"
        THEN base @@ [cagr |-> ZeroRate, cagr_pct |-> None, passes |-> FALSE,
                      status |-> "NEGATIVE",
                      note |-> Some("Mostly negative values - cash burning")]
        ELSE IF analysis.pattern = "inconsistent"
        THEN base @@ inconsistent_metric(cagr)
        ELSE base @@ [cagr |-> cagr, cagr_pct |-> Some(TimesHundred(cagr)),
                      passes |-> growth_status(cagr).passes,
                      status |-> growth_status(cagr).status,
                      note |-> None]

\* round(v, 2) if v else None, for the whole values of the model
round_or_none(v) == IF Truthy(v) THEN v ELSE None

\* variant of dict_cagr_pct that tests truthiness, so that 0.0 becomes None
dict_cagr_pct_truthy(cagr_pct) ==
    IF ~IsNone(cagr_pct) /\ ~RateIsZero(Val(cagr_pct))
    THEN Some(Round2(Val(cagr_pct))) ELSE None

\* round(self.cagr_pct, 2) if self.cagr_pct is not None else None
dict_cagr_pct(cagr_pct) ==
    IF ~IsNone(cagr_pct) THEN Some(Round2(Val(cagr_pct))) ELSE None

GrowthMetric_to_dict(m) ==
    LET result == [name     |-> m.name,
                   values   |-> [i \in 1..Len(m.values) |-> round_or_none(m.values[i])],
                   years    |-> m.years,
                   cagr_pct |-> dict_cagr_pct(m.cagr_pct),
                   passes   |-> m.passes,
                   status   |-> m.status]
    IN  IF ~IsNone(m.note) THEN result @@ [note |-> Val(m.note)] ELSE result

\* variant of grade_of_score that gives D to a score of 1
grade_of_score_lenient(score) ==
    IF score = 5 THEN "A"
    ELSE IF score = 4 THEN "B"
    ELSE IF score = 3 THEN "C"
    ELSE IF score >= 1 THEN "D"
    ELSE "F"

grade_of_score(score) ==
    IF score = 5 THEN "A"
    ELSE IF score = 4 THEN "B"
    ELSE IF score = 3 THEN "C"
    ELSE IF score = 2 THEN "D"
    ELSE "F"

\* the overall score, the grade and the BigFiveResult built from the five
\* metrics
BigFiveResult_of(revenue, eps, equity, operating_cf, free_cf) ==
    LET metrics == <<revenue, eps, equity, operating_cf, free_cf>>
        score   == Len(SelectSeq(metrics, LAMBDA m : m.passes))
    IN  [revenue      |-> revenue,
         eps          |-> eps,
         equity       |-> equity,
         operating_cf |-> operating_cf,
         free_cf      |-> free_cf,
         score        |-> score,
         total        |-> 5,
         passes       |-> score >= 3,
         grade        |-> grade_of_score(score)]

BigFive_calculate(revenue_history, eps_history, equity_history, operating_cf_history, free_cf_history, years_list) ==
    LET revenue      == evaluate_growth("Revenue", revenue_history, years_list)
        eps          == evaluate_growth("EPS", eps_history, years_list)
        equity       == evaluate_growth("Book Value", equity_history, years_list)
        operating_cf == evaluate_growth("Operating Cash Flow", operating_cf_history,
                                        years_list)
        free_cf      == evaluate_growth("Free Cash Flow", free_cf_history, years_list)
    IN  BigFiveResult_of(revenue, eps, equity, operating_cf, free_cf)

(***************************************************************************)
(* Calls of the Big Five calculator                                        *)
(***************************************************************************)
\* longest value series passed to the growth evaluation
MaxLen == 3

\* longest run of signed values passed to the pattern analysis
MaxSignLen == 10

BFValues == {None, Some(0), Some(-5), Some(10), Some(11), Some(20), Some(21), Some(23)}

BFSeries == SeqsUpTo(BFValues, MaxLen)

FiscalYears == {2018, 2019, 2020, 2023}

\* fiscal years oldest first; the empty list stands for "no years_list"
YearLists ==
    {y \in SeqsUpTo(FiscalYears, MaxLen) : \A i \in 1..(Len(y) - 1) : y[i] < y[i + 1]}

\* null/zero entries followed by long runs of losses and profits
SignSeries ==
    {pad \o signs : pad \in {<<>>, <<None>>, <<Some(0)>>, <<None, Some(0)>>},
                    signs \in SeqsUpTo({Some(-5), Some(10)}, MaxSignLen)}

\* histories handed to calculate: empty, fast growing, slow growing, loss making
MetricHistories ==
    {<<>>,
     <<Some(10), Some(11), Some(23)>>,
     <<Some(20), Some(21), Some(23)>>,
     <<Some(-5), Some(10), Some(20)>>}

ReportYears == {<<>>, <<2018, 2019, 2020>>, <<2018, 2019, 2023>>}

Idle == op = "idle"

\* the callers (worker threads) and the calculator objects they may share
Threads == {"t1", "t2"}

Instances == {"c1", "c2"}

\* the list objects the callers pass as series; a caller may pass the list
\* another caller is reading
ListsInit ==
    [xs    |-> <<Some(10), Some(12), Some(15)>>,
     ys    |-> <<Some(-5), Some(10), Some(10)>>,
     years |-> <<2018, 2019, 2020>>]

\* the local variables of calculate and evaluate, unbound
NoLocals ==
    [revenue |-> None, eps |-> None, equity |-> None, operating_cf |-> None,
     free_cf |-> None, meaning |-> None, moat |-> None, management |-> None,
     mos |-> None]

\* the companies with rows in financial_data
Companies == {"GP", "NEWCO"}

\* the first n yearly rows of a company whose EPS column is eps, whose
\* revenue, net income, equity and cash flow columns are growth, and whose
\* P/E column holds pe every year
TableOf(eps, growth, pe, n) ==
    [i \in 1..n |->
        [year |-> 2017 + i, eps |-> eps[i], pe_ratio |-> pe,
         revenue |-> growth[i], net_income |-> growth[i], total_equity |-> growth[i],
         operating_cash_flow |-> growth[i], free_cash_flow |-> growth[i],
         roe |-> Some(25), gross_margin |-> Some(40), operating_margin |-> Some(26),
         debt_to_equity |-> Some(20)]]

\* flat, growing 22% a year, mostly missing, ending in a zero
EpsColumns ==
    {<<Some(10), Some(10), Some(10)>>, <<Some(10), Some(12), Some(15)>>,
     <<Some(10), None, None>>, <<Some(10), Some(12), Some(0)>>}

GrowthColumns ==
    {<<Some(100), Some(100), Some(100)>>, <<Some(100), Some(120), Some(150)>>,
     <<Some(100), Some(0), None>>}

Tables ==
    {TableOf(eps, growth, pe, n) :
        eps \in EpsColumns, growth \in GrowthColumns, pe \in {None, Some(12)}, n \in {1, 3}}

\* the rows present when the server starts
FinancialDataInit ==
    [GP    |-> TableOf(<<Some(10), Some(12), Some(15)>>, <<Some(100), Some(120), Some(150)>>,
                       Some(12), 3),
     NEWCO |-> TableOf(<<Some(10), None, None>>, <<Some(100), Some(100), Some(100)>>,
                       None, 3)]

\* the handlers of POST /calculate/refresh-valuations that may run at once
RequestIds == {"r1", "r2"}

\* the handlers of POST /us-stocks/trigger-scrape and /us-stocks/stop-scrape
TriggerIds == {"g1", "g2"}

StopIds == {"s1"}

\* the stocks a scrape is started for
ScrapeSymbols == <<"AAPL", "MSFT">>

Call(name, a, r) ==
    /\ op' = name
    /\ args' = a
    /\ ret' = r
    /\ UNCHANGED <<threadvars, servervars>>

CallAnalyzeValues ==
    /\ Idle
    /\ \E values \in BFSeries \cup SignSeries :
        Call("analyze_values", [values |-> values], analyze_values(values))

CallCalculateCagr ==
    /\ Idle
    /\ \E values \in BFSeries, years_list \in YearLists :
        Call("calculate_cagr", [values |-> values, years_list |-> years_list],
             BigFive_calculate_cagr(values, years_list))

CallEvaluateGrowth ==
    /\ Idle
    /\ \E values \in BFSeries, years_list \in YearLists :
        Call("evaluate_growth",
             [name |-> "EPS", values |-> values, years_list |-> years_list],
             evaluate_growth("EPS", values, years_list))

CallCalculate ==
    /\ Idle
    /\ \E revenue_history \in MetricHistories, eps_history \in MetricHistories,
          equity_history \in MetricHistories, operating_cf_history \in MetricHistories,
          free_cf_history \in MetricHistories, years_list \in ReportYears :
        Call("calculate",
             [revenue_history |-> revenue_history, eps_history |-> eps_history,
              equity_history |-> equity_history,
              operating_cf_history |-> operating_cf_history,
              free_cf_history |-> free_cf_history, years_list |-> years_list],
             BigFive_calculate(revenue_history, eps_history, equity_history,
                               operating_cf_history, free_cf_history, years_list))

\* the caller serialises the metric it was handed
CallToDict ==
    /\ op = "evaluate_growth"
    /\ op' = "to_dict"
    /\ args' = [metric |-> ret]
    /\ ret' = GrowthMetric_to_dict(ret)
    /\ UNCHANGED <<threadvars, servervars>>

Return ==
    /\ ~Idle
    /\ op' = "idle"
    /\ args' = <<>>
    /\ ret' = <<>>
    /\ UNCHANGED <<threadvars, servervars>>

Init ==
    /\ op = "idle"
    /\ args = <<>>
    /\ ret = <<>>
    /\ heap = ListsInit
    /\ frames = [t \in Threads |-> [pc |-> "idle"]]
    /\ store = [t \in Threads |-> NoLocals]
    /\ db = [financial_data |-> FinancialDataInit, stocks |-> [s \in Companies |-> None]]
    /\ valuation_progress =
           [running |-> FALSE, current |-> 0, total |-> 0, current_symbol |-> "",
            success_count |-> 0, failed_count |-> 0, started_at |-> None,
            completed_at |-> None]
    /\ requests = [r \in RequestIds |-> [pc |-> "idle"]]
    /\ tasks = [r \in RequestIds |-> [pc |-> "none"]]
    /\ us_scrape_progress =
           [running |-> FALSE, current |-> 0, total |-> 0, current_symbol |-> "",
            success_count |-> 0, failed_count |-> 0, started_at |-> None,
            results |-> None]
    /\ scrape_requests = [r \in TriggerIds \cup StopIds |-> [pc |-> "idle"]]
    /\ scrape_tasks = [g \in TriggerIds |-> [pc |-> "none"]]

NextBigFive ==
    \/ CallAnalyzeValues
    \/ CallCalculateCagr
    \/ CallEvaluateGrowth
    \/ CallCalculate
    \/ CallToDict
    \/ Return

SpecBigFive == Init /\ [][NextBigFive]_vars

(***************************************************************************)
(* sticker_price.py                                                        *)
(*                                                                         *)
(* Money and P/E values are exact fractions.  The growth rate used for the *)
(* projection is carried in whole percent (a CAGR between the two clamps   *)
(* is truncated to the percent below it) and (1 + rate) ** 10 is computed  *)
(* in fixed point with four decimals.                                      *)
(***************************************************************************)
MAX_GROWTH_RATE == Rat(15, 100)

MIN_GROWTH_RATE == Rat(1, 100)

DEFAULT_PE_MULTIPLE == 2

PROJECTION_YEARS == 10

REQUIRED_RETURN == Rat(15, 100)

MOS_DISCOUNT == Rat(1, 2)

\* a rate given as a decimal of whole percent, e.g. 0.12
PctRate(pct) == [e |-> 100 + pct, s |-> 100, n |-> 1, times |-> 1, dp |-> None]

\* a <= b for two growth rates
RateLE(a, b) ==
    Pow(a.e, b.n) * Pow(b.s, a.n) <= Pow(b.e, a.n) * Pow(a.s, b.n)

\* the whole percent at or below a rate that lies within the clamps
WholePercent(c) ==
    CHOOSE k \in 1..15 :
        /\ RateGE(c, [num |-> k, den |-> 100])
        /\ k < 15 => ~RateGE(c, [num |-> k + 1, den |-> 100])

\* fixed point, four decimals: (1 + pct/100) ** years
RECURSIVE Compound(_, _)
Compound(pct, years) ==
    IF years = 0 THEN 10000 ELSE (Compound(pct, years - 1) * (100 + pct)) \div 100

\* self.discount_factor = (1 + REQUIRED_RETURN) ** PROJECTION_YEARS
discount_factor == Rat(Compound(15, PROJECTION_YEARS), 10000)

\* the instance __init__ leaves behind
StickerPriceCalculator_init == [discount_factor |-> discount_factor]

Sticker_calculate_cagr(values) ==
    IF Len(values) < 2 THEN ZeroRate
    ELSE
      LET valid_values == SelectSeq(values, IsPos)
      IN  IF Len(valid_values) < 2 THEN ZeroRate
          ELSE
            LET start_value == Val(valid_values[1])
                end_value   == Val(valid_values[Len(valid_values)])
                years       == Len(valid_values) - 1
            IN  IF start_value <= 0 \/ end_value <= 0 \/ years <= 0 THEN ZeroRate
                ELSE Growth(start_value, end_value, years)

\* variant of get_recommendation that holds only up to a 10% premium
get_recommendation_tight(current_price, sticker_price, mos) ==
    IF RatLT(current_price, mos) THEN "STRONG_BUY"
    ELSE IF RatLT(current_price, sticker_price) THEN "BUY"
    ELSE IF RatLT(current_price, RatMul(sticker_price, Rat(110, 100))) THEN "HOLD"
    ELSE "SELL"

get_recommendation(current_price, sticker_price, mos) ==
    IF RatLT(current_price, mos) THEN "STRONG_BUY"
    ELSE IF RatLT(current_price, sticker_price) THEN "BUY"
    ELSE IF RatLT(current_price, RatMul(sticker_price, Rat(125, 100))) THEN "HOLD"
    ELSE "SELL"

\* variant of base_growth_of that tests the analyst estimate for truthiness,
\* so that an estimate of 0 counts as absent
base_growth_truthy(eps_growth_rate, analyst_growth_rate) ==
    IF ~IsNone(analyst_growth_rate) /\ ~RateIsZero(Val(analyst_growth_rate))
    THEN (IF RateLE(eps_growth_rate, Val(analyst_growth_rate))
          THEN eps_growth_rate ELSE Val(analyst_growth_rate))
    ELSE eps_growth_rate

\* min(eps_growth_rate, analyst_growth_rate) if the estimate is not None
base_growth_of(eps_growth_rate, analyst_growth_rate) ==
    IF ~IsNone(analyst_growth_rate)
    THEN (IF RateLE(eps_growth_rate, Val(analyst_growth_rate))
          THEN eps_growth_rate ELSE Val(analyst_growth_rate))
    ELSE eps_growth_rate

\* max(MIN_GROWTH_RATE, min(base_growth, MAX_GROWTH_RATE)), in whole percent
used_growth_pct(base_growth) ==
    IF RateGE(base_growth, MAX_GROWTH_RATE) THEN 15
    ELSE IF ~RateGE(base_growth, MIN_GROWTH_RATE) THEN 1
    ELSE WholePercent(base_growth)

\* variant of clamp_pe with the cap lowered to 8
clamp_pe_low_cap(future_pe) == RatMax(Whole(5), RatMin(Whole(8), future_pe))

\* variant of clamp_pe without the floor of 5
clamp_pe_no_floor(future_pe) == RatMin(Whole(50), future_pe)

\* max(5, min(50, future_pe))
clamp_pe(future_pe) == RatMax(Whole(5), RatMin(Whole(50), future_pe))

\* self: the calculator instance; current_eps, historical_pe, current_price:
\* Optional fractions; eps_growth_rate, analyst_growth_rate: growth rates
\* (the latter Optional)
Sticker_calculate_on(self, current_eps, eps_growth_rate, historical_pe, current_price, analyst_growth_rate) ==
    LET base_growth == base_growth_of(eps_growth_rate, analyst_growth_rate)
        used_pct    == used_growth_pct(base_growth)
    IN  IF IsNone(current_eps) THEN [raised |-> "TypeError"]
        ELSE
          LET future_eps   == RatMul(Val(current_eps),
                                     Rat(Compound(used_pct, PROJECTION_YEARS), 10000))
              growth_pe    == Whole(used_pct * DEFAULT_PE_MULTIPLE)
              future_pe    == clamp_pe(IF Val(historical_pe).num > 0
                                       THEN RatMin(growth_pe, Val(historical_pe))
                                       ELSE growth_pe)
              future_price == RatMul(future_eps, future_pe)
              sticker_price    == RatDiv(future_price, self.discount_factor)
              margin_of_safety == RatMul(sticker_price, MOS_DISCOUNT)
              result == [current_eps      |-> Val(current_eps),
                         eps_growth_rate  |-> eps_growth_rate,
                         used_growth_rate |-> Rat(used_pct, 100),
                         historical_pe    |-> Val(historical_pe),
                         future_eps       |-> future_eps,
                         future_pe        |-> future_pe,
                         future_price     |-> future_price,
                         sticker_price    |-> sticker_price,
                         margin_of_safety |-> margin_of_safety]
              no_price == [current_price       |-> None,
                           discount_to_sticker |-> None,
                           discount_to_mos     |-> None,
                           recommendation      |-> None]
          IN  IF ~IsNone(current_price) /\ Val(current_price).num # 0
              THEN IF sticker_price.num = 0 THEN [raised |-> "ZeroDivisionError"]
                   ELSE result @@
                     [current_price       |-> current_price,
                      discount_to_sticker |->
                          Some(RatMul(RatDiv(RatSub(sticker_price, Val(current_price)),
                                             sticker_price), Whole(100))),
                      discount_to_mos     |->
                          Some(RatMul(RatDiv(RatSub(margin_of_safety, Val(current_price)),
                                             margin_of_safety), Whole(100))),
                      recommendation      |->
                          Some(get_recommendation(Val(current_price), sticker_price,
                                                  margin_of_safety))]
              ELSE result @@ no_price

\* calculate on a freshly constructed calculator
Sticker_calculate(current_eps, eps_growth_rate, historical_pe, current_price, analyst_growth_rate) ==
    Sticker_calculate_on(StickerPriceCalculator_init, current_eps, eps_growth_rate,
                         historical_pe, current_price, analyst_growth_rate)

Sticker_calculate_from_financials(eps_history, historical_pe, current_price) ==
    LET eps_growth_rate == Sticker_calculate_cagr(eps_history)
        current_eps     == IF eps_history # <<>>
                           THEN (IF IsNone(eps_history[Len(eps_history)]) THEN None
                                 ELSE Some(Whole(Val(eps_history[Len(eps_history)]))))
                           ELSE Some(Whole(0))
    IN  Sticker_calculate(current_eps, eps_growth_rate, historical_pe, current_price,
                          None)

(***************************************************************************)
(* Calls of the sticker price calculator                                   *)
(***************************************************************************)
\* longest EPS history passed to calculate_from_financials
MaxEpsLen == 3

EpsValues == {None, Some(0), Some(-5), Some(10), Some(11), Some(12)}

EpsSeries == SeqsUpTo(EpsValues, MaxEpsLen)

CurrentEps == {Some(Whole(x)) : x \in {-2, 0, 1, 5, 10}}

GrowthRates == {PctRate(p) : p \in {-5, 0, 1, 8, 10, 15, 30}}

AnalystRates == {None} \cup {Some(PctRate(p)) : p \in {0, 5, 20}}

HistoricalPEs == {Some(Whole(x)) : x \in {-3, 0, 3, 4, 8, 20, 60}}

CurrentPrices == {None} \cup {Some(Whole(x)) : x \in {0, 1, 10, 20, 50, 400}}

CallStickerCagr ==
    /\ Idle
    /\ \E values \in EpsSeries :
        Call("sticker_calculate_cagr", [values |-> values],
             Sticker_calculate_cagr(values))

CallStickerCalculate ==
    /\ Idle
    /\ \E current_eps \in CurrentEps, eps_growth_rate \in GrowthRates,
          historical_pe \in HistoricalPEs, current_price \in CurrentPrices,
          analyst_growth_rate \in AnalystRates :
        Call("sticker_calculate",
             [current_eps |-> current_eps, eps_growth_rate |-> eps_growth_rate,
              historical_pe |-> historical_pe, current_price |-> current_price,
              analyst_growth_rate |-> analyst_growth_rate],
             Sticker_calculate(current_eps, eps_growth_rate, historical_pe,
                               current_price, analyst_growth_rate))

\* the caller repeats calculate with another current_eps or historical_pe
\* and keeps both results side by side
CallStickerCalculateAgain ==
    /\ op = "sticker_calculate"
    /\ \E current_eps \in CurrentEps, historical_pe \in HistoricalPEs :
        /\ current_eps = args.current_eps \/ historical_pe = args.historical_pe
        /\ LET again == [args EXCEPT !.current_eps = current_eps,
                                     !.historical_pe = historical_pe]
           IN  Call("sticker_calculate_again",
                    [first |-> args, second |-> again],
                    [first |-> ret,
                     second |-> Sticker_calculate(again.current_eps,
                                                  again.eps_growth_rate,
                                                  again.historical_pe,
                                                  again.current_price,
                                                  again.analyst_growth_rate)])

CallStickerFromFinancials ==
    /\ Idle
    /\ \E eps_history \in EpsSeries, historical_pe \in HistoricalPEs,
          current_price \in CurrentPrices :
        Call("calculate_from_financials",
             [eps_history |-> eps_history, historical_pe |-> historical_pe,
              current_price |-> current_price],
             Sticker_calculate_from_financials(eps_history, historical_pe,
                                               current_price))

NextSticker ==
    \/ CallStickerCagr
    \/ CallStickerCalculate
    \/ CallStickerCalculateAgain
    \/ CallStickerFromFinancials
    \/ Return

SpecSticker == Init /\ [][NextSticker]_vars

(***************************************************************************)
(* four_ms.py                                                              *)
(*                                                                         *)
(* Histories are sequences of Optional whole numbers: ROE and margins in   *)
(* percent, debt-to-equity in hundredths.  Scores are exact fractions.  A  *)
(* coefficient of variation is kept as its square, [sq |-> cv * cv].       *)
(* Notes carry the fixed part of the message text.                         *)
(***************************************************************************)
score_to_grade(score) ==
    IF RatLE(Whole(85), score) THEN "A"
    ELSE IF RatLE(Whole(70), score) THEN "B"
    ELSE IF RatLE(Whole(55), score) THEN "C"
    ELSE IF RatLE(Whole(40), score) THEN "D"
    ELSE "F"

\* the present values of a history, as whole numbers
Present(values) ==
    LET kept == SelectSeq(values, LAMBDA v : ~IsNone(v))
    IN  [i \in 1..Len(kept) |-> Val(kept[i])]

calculate_average(values) ==
    LET valid == SelectSeq(Present(values), LAMBDA x : x # 0)
    IN  IF valid # <<>> THEN Rat(SeqSum(valid), Len(valid)) ELSE Whole(0)

\* cv = (std / mean) * 100 with mean = S/n and variance = Q/n - (S/n)^2
calculate_cv(values) ==
    LET valid == SelectSeq(Present(values), LAMBDA x : x > 0)
        n     == Len(valid)
        S     == SeqSum(valid)
        Q     == SeqSum([i \in 1..n |-> valid[i] * valid[i]])
    IN  IF n < 2 THEN [sq |-> Whole(10000)]
        ELSE [sq |-> RatDiv(Whole(10000 * (n * Q - S * S)), Whole(S * S))]

\* cv < limit
CvBelow(cv, limit) == RatLT(cv.sq, Whole(limit * limit))

\* 100 - min(100, cv), kept as the cv that is subtracted
stability_of(cv) == [hundred_minus |-> IF CvBelow(cv, 100) THEN cv ELSE [sq |-> Whole(10000)]]

is_consistent(values, threshold) ==
    LET valid   == Present(values)
        passing == Len(SelectSeq(valid, LAMBDA x : x >= threshold))
    IN  IF Len(valid) < 2 THEN FALSE
        ELSE 10 * passing >= 6 * Len(valid)

\* Python's floor division n // 3 and -n // 3
get_trend(values) ==
    LET valid == Present(values)
        n     == Len(valid)
    IN  IF n < 3 THEN "Stable"
        ELSE
          LET first_len   == n \div 3
              last_len    == -((-n) \div 3)
              first_third == SubSeq(valid, 1, first_len)
              last_third  == SubSeq(valid, n - last_len + 1, n)
              avg_first   == Rat(SeqSum(first_third), Len(first_third))
              avg_last    == Rat(SeqSum(last_third), Len(last_third))
          IN  IF avg_first.num = 0 THEN "Stable"
              ELSE
                LET change_pct ==
                        RatMul(RatDiv(RatSub(avg_last, avg_first),
                                      [num |-> Abs(avg_first.num), den |-> avg_first.den]),
                               Whole(100))
                IN  IF RatLT(Whole(10), change_pct) THEN "Growing"
                    ELSE IF RatLT(change_pct, Whole(-10)) THEN "Declining"
                    ELSE "Stable"

calculate_profitable_years_pct(net_income_history) ==
    LET valid      == Present(net_income_history)
        profitable == Len(SelectSeq(valid, LAMBDA x : x > 0))
    IN  IF valid = <<>> THEN Whole(0)
        ELSE Rat(100 * profitable, Len(valid))

\* sectors.py: STOCK_SECTOR_MAP and SECTOR_PROFILES, for the symbols used
sector_display_name(symbol) == IF symbol = "GP" THEN "Telecom" ELSE "Unclassified"

sector_investment_note(symbol) ==
    IF symbol = "GP"
    THEN "Limited growth but strong cash generation. GP is the only listed quality option. Regulatory risks are main concern."
    ELSE "This stock needs sector classification for proper analysis."

\* a note appended only under a condition
NoteIf(cond, text) == IF cond THEN <<text>> ELSE <<>>

evaluate_meaning(symbol, revenue_history, net_income_history) ==
    LET sector_name == sector_display_name(symbol)
        revenue_cv  == calculate_cv(revenue_history)
        stability   ==
            IF CvBelow(revenue_cv, 15)
            THEN [s |-> 25, n |-> "Highly stable revenue - predictable business"]
            ELSE IF CvBelow(revenue_cv, 25) THEN [s |-> 20, n |-> "Stable revenue stream"]
            ELSE IF CvBelow(revenue_cv, 40) THEN [s |-> 15, n |-> "Moderate revenue volatility"]
            ELSE IF CvBelow(revenue_cv, 60)
            THEN [s |-> 10, n |-> "Revenue shows significant volatility"]
            ELSE [s |-> 5, n |-> "Highly volatile revenue - harder to predict"]
        earnings_pct == calculate_profitable_years_pct(net_income_history)
        earnings ==
            IF RatLE(Whole(100), earnings_pct)
            THEN [s |-> 25, n |-> <<"Profitable every year - strong earnings quality">>]
            ELSE IF RatLE(Whole(80), earnings_pct)
            THEN [s |-> 20, n |-> <<"Profitable most years">>]
            ELSE IF RatLE(Whole(60), earnings_pct) THEN [s |-> 15, n |-> <<>>]
            ELSE IF RatLE(Whole(40), earnings_pct)
            THEN [s |-> 10, n |-> <<"Inconsistent profitability">>]
            ELSE [s |-> 5, n |-> <<"Frequently unprofitable - high risk">>]
        positive_ni ==
            SelectSeq(net_income_history, LAMBDA v : ~IsNone(v) /\ Val(v) > 0)
        ni_cv == IF positive_ni # <<>> THEN calculate_cv(positive_ni)
                 ELSE [sq |-> Whole(10000)]
        ni_stability ==
            IF CvBelow(ni_cv, 20) THEN [s |-> 25, n |-> <<"Highly predictable earnings">>]
            ELSE IF CvBelow(ni_cv, 35) THEN [s |-> 20, n |-> <<"Stable earnings pattern">>]
            ELSE IF CvBelow(ni_cv, 50) THEN [s |-> 15, n |-> <<>>]
            ELSE IF CvBelow(ni_cv, 70)
            THEN [s |-> 10, n |-> <<"Volatile earnings - harder to predict">>]
            ELSE [s |-> 5, n |-> <<"Highly volatile earnings">>]
        rev_years == Len(Present(revenue_history))
        ni_years  == Len(Present(net_income_history))
        years_of_data == IF rev_years >= ni_years THEN rev_years ELSE ni_years
        data ==
            IF years_of_data >= 10 THEN [s |-> 25, n |-> <<>>]
            ELSE IF years_of_data >= 7 THEN [s |-> 20, n |-> <<>>]
            ELSE IF years_of_data >= 5 THEN [s |-> 15, n |-> <<"Limited history">>]
            ELSE IF years_of_data >= 3
            THEN [s |-> 10, n |-> <<"Short history - less certainty">>]
            ELSE [s |-> 5, n |-> <<"Insufficient data for confident analysis">>]
        data_quality == RatMul(Rat(years_of_data, 10), Whole(100))
        total_score  == stability.s + earnings.s + ni_stability.s + data.s
    IN  [revenue_stability    |-> stability_of(revenue_cv),
         earnings_consistency |-> earnings_pct,
         net_income_stability |-> stability_of(ni_cv),
         data_quality         |-> RatMin(Whole(100), data_quality),
         sector               |-> sector_name,
         sector_note          |-> sector_investment_note(symbol),
         score                |-> Whole(total_score),
         grade                |-> score_to_grade(Whole(total_score)),
         notes                |-> <<stability.n>> \o earnings.n \o ni_stability.n
                                  \o data.n \o <<"Sector">>]

\* variant of valid_roe_of that drops only the missing values
valid_roe_not_none(roe_history) ==
    SelectSeq(roe_history, LAMBDA r : ~IsNone(r))

\* ROE outside [-100, 100] comes from near-zero or negative equity
valid_roe_of(roe_history) ==
    SelectSeq(roe_history, LAMBDA r : ~IsNone(r) /\ -100 <= Val(r) /\ Val(r) <= 100)

evaluate_moat(roe_history, gross_margin_history, operating_margin_history) ==
    LET valid_roe == valid_roe_of(roe_history)
        has_negative_equity ==
            \/ Len(valid_roe) < Len(Present(roe_history))
            \/ (Len(roe_history) > 0 /\ Len(valid_roe) = 0)
        roe_avg == IF valid_roe # <<>> THEN calculate_average(valid_roe) ELSE Whole(0)
        roe_level ==
            IF valid_roe # <<>>
            THEN IF RatLE(Whole(20), roe_avg) THEN [s |-> 30, n |-> "Excellent ROE indicates strong moat"]
                 ELSE IF RatLE(Whole(15), roe_avg)
                 THEN [s |-> 24, n |-> "Good ROE suggests competitive advantage"]
                 ELSE IF RatLE(Whole(10), roe_avg) THEN [s |-> 18, n |-> "Moderate ROE"]
                 ELSE IF RatLE(Whole(5), roe_avg) THEN [s |-> 12, n |-> "Below-average ROE"]
                 ELSE [s |-> 6, n |-> "Weak ROE - no evident moat"]
            ELSE [s |-> 15, n |-> "ROE unavailable (negative equity from stock buybacks)"]
        measured == valid_roe # <<>> /\ Len(valid_roe) >= 2
        roe_consistent == IF measured THEN is_consistent(valid_roe, 15) ELSE FALSE
        roe_consistency ==
            IF measured
            THEN IF roe_consistent
                 THEN [s |-> 20, n |-> <<"Consistent ROE > 15% shows durable advantage">>]
                 ELSE IF is_consistent(valid_roe, 10) THEN [s |-> 12, n |-> <<>>]
                 ELSE [s |-> 6, n |-> <<>>]
            ELSE [s |-> 10,
                  n |-> NoteIf(has_negative_equity /\ valid_roe # <<>>,
                               "ROE consistency cannot be measured (negative equity)")]
        gross_margin_avg == calculate_average(gross_margin_history)
        gm_level ==
            IF RatLE(Whole(40), gross_margin_avg)
            THEN [s |-> 20, n |-> <<"High gross margins indicate pricing power">>]
            ELSE IF RatLE(Whole(30), gross_margin_avg) THEN [s |-> 15, n |-> <<>>]
            ELSE IF RatLE(Whole(20), gross_margin_avg) THEN [s |-> 10, n |-> <<>>]
            ELSE IF RatLE(Whole(10), gross_margin_avg) THEN [s |-> 6, n |-> <<>>]
            ELSE [s |-> 3, n |-> <<>>]
        gross_margin_trend == get_trend(gross_margin_history)
        gm_trend ==
            IF gross_margin_trend = "Growing"
            THEN [s |-> 15, n |-> <<"Expanding gross margins - strengthening moat">>]
            ELSE IF gross_margin_trend = "Stable" THEN [s |-> 10, n |-> <<>>]
            ELSE [s |-> 5, n |-> <<"Declining gross margins - potential moat erosion">>]
        operating_margin_avg == calculate_average(operating_margin_history)
        om ==
            IF RatLE(Whole(25), operating_margin_avg)
            THEN [s |-> 15, n |-> <<"Excellent operating efficiency">>]
            ELSE IF RatLE(Whole(15), operating_margin_avg) THEN [s |-> 12, n |-> <<>>]
            ELSE IF RatLE(Whole(10), operating_margin_avg) THEN [s |-> 8, n |-> <<>>]
            ELSE IF RatLE(Whole(5), operating_margin_avg) THEN [s |-> 5, n |-> <<>>]
            ELSE [s |-> 2, n |-> <<>>]
        total_score == roe_level.s + roe_consistency.s + gm_level.s + gm_trend.s + om.s
    IN  [roe_avg              |-> roe_avg,
         roe_consistent       |-> roe_consistent,
         gross_margin_avg     |-> gross_margin_avg,
         gross_margin_trend   |-> gross_margin_trend,
         operating_margin_avg |-> operating_margin_avg,
         score                |-> Whole(total_score),
         grade                |-> score_to_grade(Whole(total_score)),
         notes                |-> <<roe_level.n>> \o roe_consistency.n \o gm_level.n
                                  \o gm_trend.n \o om.n,
         score_breakdown      |-> [ROE_Level          |-> roe_level.s,
                                   ROE_Consistency    |-> roe_consistency.s,
                                   Gross_Margin_Level |-> gm_level.s,
                                   Gross_Margin_Trend |-> gm_trend.s,
                                   Operating_Margin   |-> om.s]]

\* debt-to-equity histories are in hundredths; de_avg is the ratio itself
evaluate_management(roe_history, debt_to_equity_history, fcf_history, net_income_history) ==
    LET valid_roe == valid_roe_of(roe_history)
        measured  == valid_roe # <<>> /\ Len(valid_roe) >= 2
        roe_above_15 == IF measured THEN is_consistent(valid_roe, 15) ELSE FALSE
        roe ==
            IF measured
            THEN IF roe_above_15
                 THEN [s |-> 34, n |-> <<"Consistent ROE > 15% shows good capital allocation">>]
                 ELSE IF is_consistent(valid_roe, 10) THEN [s |-> 24, n |-> <<>>]
                 ELSE IF RatLE(Whole(10), calculate_average(valid_roe)) THEN [s |-> 16, n |-> <<>>]
                 ELSE [s |-> 8, n |-> <<>>]
            ELSE [s |-> 17,
                  n |-> <<"Capital allocation hard to measure (negative equity from buybacks)">>]
        valid_de == SelectSeq(debt_to_equity_history, LAMBDA d : ~IsNone(d))
        de_avg   == IF valid_de # <<>> THEN RatDiv(calculate_average(valid_de), Whole(100))
                    ELSE Whole(0)
        debt_reasonable == IF valid_de # <<>> THEN RatLT(de_avg, Rat(5, 10)) ELSE TRUE
        debt ==
            IF valid_de # <<>>
            THEN IF RatLT(de_avg, Rat(3, 10))
                 THEN [s |-> 33, n |-> "Very low debt provides financial flexibility"]
                 ELSE IF RatLT(de_avg, Rat(5, 10)) THEN [s |-> 26, n |-> "Conservative debt levels"]
                 ELSE IF RatLT(de_avg, Whole(1))
                 THEN [s |-> 18, n |-> "Moderate debt - monitor carefully"]
                 ELSE IF RatLT(de_avg, Whole(2)) THEN [s |-> 10, n |-> "Elevated debt levels"]
                 ELSE [s |-> 5, n |-> "High debt is a concern"]
            ELSE [s |-> 20, n |-> "Debt/equity ratio N/A (negative equity)"]
        fcf_avg == calculate_average(fcf_history)
        ni_avg  == calculate_average(net_income_history)
        fcf_ni_ratio == IF RatLT(Whole(0), ni_avg) THEN RatDiv(fcf_avg, ni_avg) ELSE Whole(0)
        fcf ==
            IF RatLE(Whole(1), fcf_ni_ratio)
            THEN [s |-> 33, n |-> <<"FCF exceeds net income - high quality earnings">>]
            ELSE IF RatLE(Rat(8, 10), fcf_ni_ratio)
            THEN [s |-> 26, n |-> <<"Strong free cash flow generation">>]
            ELSE IF RatLE(Rat(5, 10), fcf_ni_ratio) THEN [s |-> 18, n |-> <<>>]
            ELSE IF RatLE(Rat(2, 10), fcf_ni_ratio) THEN [s |-> 10, n |-> <<"Weak cash conversion">>]
            ELSE [s |-> 5, n |-> <<"Poor cash generation vs earnings">>]
        total_score == roe.s + debt.s + fcf.s
    IN  [roe_above_15    |-> roe_above_15,
         debt_to_equity  |-> de_avg,
         debt_reasonable |-> debt_reasonable,
         fcf_to_ni_ratio |-> fcf_ni_ratio,
         score           |-> Whole(total_score),
         grade           |-> score_to_grade(Whole(total_score)),
         notes           |-> roe.n \o <<debt.n>> \o fcf.n,
         score_breakdown |-> [ROE_Consistency |-> roe.s,
                              Debt_Management |-> debt.s,
                              Cash_Generation |-> fcf.s]]

\* evaluate_mos on prices given as fractions
evaluate_mos_of(price, sticker) ==
    LET mos     == RatMul(sticker, Rat(5, 10))
        discount_pct ==
            IF sticker.num > 0
            THEN RatMul(RatDiv(RatSub(sticker, price), sticker), Whole(100))
            ELSE Whole(0)
        band ==
            IF RatLT(price, mos)
            THEN [s |-> Whole(100), r |-> "STRONG_BUY",
                  n |-> <<"Price is below Sticker Price - excellent value!",
                          "Trading below Margin of Safety - maximum safety">>]
            ELSE IF RatLT(price, sticker)
            THEN LET discount_ratio ==
                         IF RatLT(mos, sticker)
                         THEN RatDiv(RatSub(sticker, price), RatSub(sticker, mos))
                         ELSE Rat(5, 10)
                 IN  [s |-> RatAdd(Whole(50), RatMul(discount_ratio, Whole(40))),
                      r |-> "BUY",
                      n |-> <<"Price is below Sticker Price - good value">>]
            ELSE IF RatLT(price, RatMul(sticker, Rat(11, 10)))
            THEN [s |-> Whole(40), r |-> "HOLD",
                  n |-> <<"Price is near fair value - hold position">>]
            ELSE IF RatLT(price, RatMul(sticker, Rat(125, 100)))
            THEN [s |-> Whole(25), r |-> "HOLD",
                  n |-> <<"Slightly overvalued - consider taking profits">>]
            ELSE [s |-> Whole(10), r |-> "SELL",
                  n |-> <<"Significantly overvalued - consider selling">>]
    IN  [current_price    |-> price,
         sticker_price    |-> sticker,
         margin_of_safety |-> mos,
         discount_pct     |-> discount_pct,
         score            |-> band.s,
         grade            |-> score_to_grade(band.s),
         recommendation   |-> band.r,
         notes            |-> band.n]

\* evaluate_mos on whole prices
evaluate_mos(current_price, sticker_price) ==
    evaluate_mos_of(Whole(current_price), Whole(sticker_price))

\* meaning 20%, moat 30%, management 20%, margin of safety 30%
base_score_of(meaning, moat, management, mos) ==
    RatAdd(RatAdd(RatAdd(RatMul(meaning.score, Rat(20, 100)),
                         RatMul(moat.score, Rat(30, 100))),
                  RatMul(management.score, Rat(20, 100))),
           RatMul(mos.score, Rat(30, 100)))

big_five_warning_of(big_five_score) == big_five_score < 3

big_five_penalty_flat(big_five_score) ==
    IF big_five_score \in {0, 1, 2} THEN 10 ELSE 0

big_five_penalty_of(big_five_score) ==
    IF big_five_score = 2 THEN 10
    ELSE IF big_five_score = 1 THEN 20
    ELSE IF big_five_score = 0 THEN 30
    ELSE 0

\* variant of overall_score_of without the floor of 0
overall_score_unclamped(base_score, big_five_penalty) ==
    RatSub(base_score, Whole(big_five_penalty))

\* max(0, base_score - big_five_penalty)
overall_score_of(base_score, big_five_penalty) ==
    RatMax(Whole(0), RatSub(base_score, Whole(big_five_penalty)))

summary_head(overall_score) ==
    IF RatLE(Whole(70), overall_score) THEN "This appears to be a Rule #1 company"
    ELSE IF RatLE(Whole(50), overall_score)
    THEN "This company has some Rule #1 qualities but needs more analysis"
    ELSE "This company may not meet Rule #1 criteria"

FirstNote(notes) == IF notes # <<>> THEN <<notes[1]>> ELSE <<>>

recommendation_uncapped(big_five_warning, mos_recommendation, overall_score) ==
    IF mos_recommendation \in {"STRONG_BUY", "BUY"} /\ RatLE(Whole(60), overall_score)
    THEN mos_recommendation
    ELSE IF mos_recommendation = "SELL" \/ RatLT(overall_score, Whole(40)) THEN "AVOID"
    ELSE "HOLD"

recommendation_lenient(big_five_warning, mos_recommendation, overall_score) ==
    IF big_five_warning
    THEN IF mos_recommendation = "SELL" \/ RatLT(overall_score, Whole(40)) THEN "AVOID"
         ELSE "HOLD"
    ELSE IF mos_recommendation \in {"STRONG_BUY", "BUY"} /\ RatLE(Whole(50), overall_score)
    THEN mos_recommendation
    ELSE IF mos_recommendation = "SELL" \/ RatLT(overall_score, Whole(40)) THEN "AVOID"
    ELSE "HOLD"

recommendation_of(big_five_warning, mos_recommendation, overall_score) ==
    IF big_five_warning
    THEN IF mos_recommendation = "SELL" \/ RatLT(overall_score, Whole(40)) THEN "AVOID"
         ELSE "HOLD"
    ELSE IF mos_recommendation \in {"STRONG_BUY", "BUY"} /\ RatLE(Whole(60), overall_score)
    THEN mos_recommendation
    ELSE IF mos_recommendation = "SELL" \/ RatLT(overall_score, Whole(40)) THEN "AVOID"
    ELSE "HOLD"

\* the part of evaluate that follows the four sub-evaluations
FourMsResult_of(meaning, moat, management, mos, big_five_score) ==
    LET base_score == base_score_of(meaning, moat, management, mos)
        big_five_warning == big_five_warning_of(big_five_score)
        big_five_penalty == big_five_penalty_of(big_five_score)
        overall_score    == overall_score_of(base_score, big_five_penalty)
        summary == <<summary_head(overall_score)>> \o FirstNote(meaning.notes)
                   \o FirstNote(moat.notes) \o FirstNote(management.notes)
                   \o FirstNote(mos.notes)
    IN  [meaning          |-> meaning,
         moat             |-> moat,
         management       |-> management,
         mos              |-> mos,
         overall_score    |-> overall_score,
         overall_grade    |-> score_to_grade(overall_score),
         recommendation   |-> recommendation_of(big_five_warning, mos.recommendation,
                                                overall_score),
         summary          |-> IF big_five_warning
                              THEN <<"Big Five failed - score penalty, recommendation capped">>
                                   \o summary
                              ELSE summary,
         big_five_score   |-> big_five_score,
         big_five_penalty |-> big_five_penalty,
         big_five_warning |-> big_five_warning]

FourMs_evaluate(a) ==
    FourMsResult_of(evaluate_meaning(a.symbol, a.revenue_history, a.net_income_history),
                    evaluate_moat(a.roe_history, a.gross_margin_history,
                                  a.operating_margin_history),
                    evaluate_management(a.roe_history, a.debt_to_equity_history,
                                        a.fcf_history, a.net_income_history),
                    evaluate_mos(a.current_price, a.sticker_price),
                    a.big_five_score)

(***************************************************************************)
(* Calls of the Four Ms evaluator                                          *)
(***************************************************************************)
HistoryYears == 10

Steady(v, n) == [i \in 1..n |-> Some(v)]

Symbols == {"GP", "NEWCO"}

RevenueHistories ==
    {<<>>, Steady(100, HistoryYears), <<Some(10), Some(50), Some(200)>>}

NetIncomeHistories ==
    {<<>>, Steady(10, 3), <<Some(-5), Some(10), Some(-5)>>}

RoeHistories ==
    {<<>>, <<Some(25), Some(22), Some(30)>>, <<Some(8), Some(150), None>>}

\* longest ROE history passed to evaluate_moat on its own
MaxRoeLen == 3

\* null and just out-of-range observations
RoeSentinels == {None, Some(101), Some(-101)}

RoeSeries == SeqsUpTo(RoeSentinels \cup {Some(100), Some(12), Some(8)}, MaxRoeLen)

\* h with one sentinel inserted at any position
AddSentinel(h) ==
    {SubSeq(h, 1, k) \o <<v>> \o SubSeq(h, k + 1, Len(h)) :
         k \in 0..Len(h), v \in RoeSentinels}

\* h with one of its sentinels removed
DropSentinel(h) ==
    {SubSeq(h, 1, k - 1) \o SubSeq(h, k + 1, Len(h)) :
         k \in {i \in 1..Len(h) : h[i] \in RoeSentinels}}

GrossMarginHistories ==
    {<<Some(30), Some(40), Some(50)>>, <<Some(50), Some(30), Some(10)>>}

OperatingMarginHistories == {<<Some(30), Some(26)>>, <<Some(4), None>>}

DebtToEquityHistories == {<<Some(20), Some(25)>>, <<None, Some(250)>>}

MaxDeLen == 2

\* debt-to-equity observations in hundredths: null, a ratio over negative
\* equity (-2.50, -0.40), a low (0.20) and a high (2.50) ratio
DebtToEquitySeries == SeqsUpTo({None, Some(-250), Some(-40), Some(20), Some(250)}, MaxDeLen)

FcfHistories == {<<Some(12), Some(12), Some(12)>>, <<Some(2), Some(-1)>>}

StickerPrices == {-50, 0, 100}

MarketPrices == {0, 40, 50, 75, 100, 115, 125}

\* prices handed to evaluate_mos on its own
MosPrices == MarketPrices \cup {-60, 49, 60, 99, 124, 130}

\* every price against a positive sticker price, two against the others
PricePairs ==
    {pr \in MarketPrices \X StickerPrices : pr[2] > 0 \/ pr[1] \in {0, 40}}

BigFiveScores == -1..6

CallEvaluateMeaning ==
    /\ Idle
    /\ \E symbol \in Symbols, revenue_history \in RevenueHistories,
          net_income_history \in NetIncomeHistories :
        Call("evaluate_meaning",
             [symbol |-> symbol, revenue_history |-> revenue_history,
              net_income_history |-> net_income_history],
             evaluate_meaning(symbol, revenue_history, net_income_history))

CallEvaluateMoat ==
    /\ Idle
    /\ \E roe_history \in RoeHistories \cup RoeSeries,
          gross_margin_history \in GrossMarginHistories,
          operating_margin_history \in OperatingMarginHistories :
        Call("evaluate_moat",
             [roe_history |-> roe_history, gross_margin_history |-> gross_margin_history,
              operating_margin_history |-> operating_margin_history],
             evaluate_moat(roe_history, gross_margin_history, operating_margin_history))

\* the caller evaluates the moat again after one null or out-of-range ROE
\* observation was added to, or removed from, the history
CallEvaluateMoatAgain ==
    /\ op = "evaluate_moat"
    /\ \E roe_history \in AddSentinel(args.roe_history) \cup DropSentinel(args.roe_history) :
        LET again == [args EXCEPT !.roe_history = roe_history]
        IN  Call("evaluate_moat_again",
                 [first |-> args, second |-> again],
                 [first |-> ret,
                  second |-> evaluate_moat(again.roe_history, again.gross_margin_history,
                                           again.operating_margin_history)])

CallEvaluateManagement ==
    /\ Idle
    /\ \E roe_history \in RoeHistories,
          debt_to_equity_history \in DebtToEquityHistories \cup DebtToEquitySeries,
          fcf_history \in FcfHistories, net_income_history \in NetIncomeHistories :
        Call("evaluate_management",
             [roe_history |-> roe_history,
              debt_to_equity_history |-> debt_to_equity_history,
              fcf_history |-> fcf_history, net_income_history |-> net_income_history],
             evaluate_management(roe_history, debt_to_equity_history, fcf_history,
                                 net_income_history))

MaxTrendLen == 4

\* margin histories with nulls, zeros, negative, flat and moving values
TrendSeries == SeqsUpTo({None, Some(-10), Some(0), Some(10), Some(11), Some(20)}, MaxTrendLen)

CallGetTrend ==
    /\ Idle
    /\ \E values \in TrendSeries :
        Call("get_trend", [values |-> values], get_trend(values))

CallEvaluateMos ==
    /\ Idle
    /\ \E current_price \in MosPrices, sticker_price \in StickerPrices :
        Call("evaluate_mos",
             [current_price |-> current_price, sticker_price |-> sticker_price],
             evaluate_mos(current_price, sticker_price))

\* the caller asks the sticker price calculator for its recommendation on
\* the price and sticker price it has just had evaluated
CallGetRecommendation ==
    /\ op = "evaluate_mos"
    /\ LET current_price == Whole(args.current_price)
           sticker_price == Whole(args.sticker_price)
           mos           == RatMul(sticker_price, MOS_DISCOUNT)
       IN  Call("get_recommendation",
                [current_price |-> current_price, sticker_price |-> sticker_price,
                 mos |-> mos, evaluated |-> ret],
                get_recommendation(current_price, sticker_price, mos))

CallEvaluate ==
    /\ Idle
    /\ \E revenue_history \in RevenueHistories, net_income_history \in NetIncomeHistories,
          roe_history \in RoeHistories, gross_margin_history \in GrossMarginHistories,
          operating_margin_history \in OperatingMarginHistories,
          debt_to_equity_history \in DebtToEquityHistories, fcf_history \in FcfHistories,
          pr \in PricePairs, big_five_score \in BigFiveScores :
        LET a == [symbol |-> "GP",
                  revenue_history |-> revenue_history,
                  net_income_history |-> net_income_history,
                  roe_history |-> roe_history,
                  gross_margin_history |-> gross_margin_history,
                  operating_margin_history |-> operating_margin_history,
                  debt_to_equity_history |-> debt_to_equity_history,
                  fcf_history |-> fcf_history,
                  current_price |-> pr[1],
                  sticker_price |-> pr[2],
                  big_five_score |-> big_five_score]
        IN  Call("evaluate", a, FourMs_evaluate(a))

NextFourMs ==
    \/ CallEvaluateMeaning
    \/ CallEvaluateMoat
    \/ CallEvaluateMoatAgain
    \/ CallEvaluateManagement
    \/ CallEvaluateMos
    \/ CallGetRecommendation
    \/ CallEvaluate
    \/ Return

SpecFourMs == Init /\ [][NextFourMs]_vars

\* the four sub-score evaluations called on their own
NextSubScores ==
    \/ CallGetTrend
    \/ CallEvaluateMeaning
    \/ CallEvaluateMoat
    \/ CallEvaluateMoatAgain
    \/ CallEvaluateManagement
    \/ CallEvaluateMos
    \/ CallGetRecommendation
    \/ Return

SpecSubScores == Init /\ [][NextSubScores]_vars

(***************************************************************************)
(* Concurrent calls                                                        *)
(*                                                                         *)
(* Several worker threads call calculate and evaluate at once, on one      *)
(* calculator object or on several, passing list objects they may share.   *)
(* A call runs statement by statement: each step reads the objects on the  *)
(* heap as they are at that moment and binds one local variable.           *)
(***************************************************************************)

\* variant in which reading a series consumes its last observation
\* (values.pop())
read_consuming(h, x) == [h EXCEPT ![x] = SubSeq(h[x], 1, Len(h[x]) - 1)]

\* the heap after a statement has read the series x: the series are only
\* iterated over, filtered copies are new lists
read_only(h, x) == h

BigFiveCalls ==
    {[kind |-> "big_five", self |-> self, revenue_history |-> r, eps_history |-> e,
      equity_history |-> "xs", operating_cf_history |-> "ys", free_cf_history |-> e,
      years_list |-> "years"] : self \in Instances, r \in {"xs", "ys"}, e \in {"xs", "ys"}}

StickerCalls ==
    {[kind |-> "sticker", self |-> self, current_eps |-> Some(Whole(e)),
      eps_growth_rate |-> PctRate(g), historical_pe |-> Some(Whole(20)),
      current_price |-> Some(Whole(10)), analyst_growth_rate |-> None] :
        self \in Instances, e \in {5, 10}, g \in {8, 30}}

FourMsCalls ==
    {[kind |-> "four_ms", self |-> self, symbol |-> "GP", revenue_history |-> r,
      net_income_history |-> "xs", roe_history |-> "xs", gross_margin_history |-> "xs",
      operating_margin_history |-> "ys", debt_to_equity_history |-> "ys",
      fcf_history |-> "xs", current_price |-> 40, sticker_price |-> 100,
      big_five_score |-> s] : self \in Instances, r \in {"xs", "ys"}, s \in {1, 5}}

FirstStep(call) ==
    CASE call.kind = "big_five" -> "revenue"
      [] call.kind = "sticker"  -> "project"
      [] call.kind = "four_ms"  -> "meaning"

\* sticker_calc = StickerPriceCalculator(): __init__ sets the discount factor
Construct ==
    /\ \E self \in Instances :
        /\ self \notin DOMAIN heap
        /\ heap' = heap @@ (self :> StickerPriceCalculator_init)
    /\ UNCHANGED <<op, args, ret, frames, store, servervars>>

\* a thread enters calculate or evaluate
ThreadCall(t) ==
    /\ frames[t].pc = "idle"
    /\ \E call \in BigFiveCalls \cup StickerCalls \cup FourMsCalls :
        /\ call.kind = "sticker" => call.self \in DOMAIN heap
        /\ frames' = [frames EXCEPT ![t] = [pc |-> FirstStep(call), call |-> call]]
    /\ UNCHANGED <<op, args, ret, heap, store, servervars>>

\* the display name calculate passes for each metric
MetricName(local) ==
    CASE local = "revenue"      -> "Revenue"
      [] local = "eps"          -> "EPS"
      [] local = "equity"       -> "Book Value"
      [] local = "operating_cf" -> "Operating Cash Flow"
      [] local = "free_cf"      -> "Free Cash Flow"

\* one statement of BigFiveCalculator.calculate
BigFiveStep(t) ==
    LET f == frames[t]
        c == f.call
        l == store[t]
        Bind(name, x, next) ==
            /\ store' = [store EXCEPT ![t] =
                   [l EXCEPT ![name] = evaluate_growth(MetricName(name), heap[x],
                                                       heap[c.years_list])]]
            /\ heap' = read_only(heap, x)
            /\ frames' = [frames EXCEPT ![t].pc = next]
    IN  /\ f.pc \in {"revenue", "eps", "equity", "operating_cf", "free_cf", "result"}
        /\ c.kind = "big_five"
        /\ CASE f.pc = "revenue"      -> Bind("revenue", c.revenue_history, "eps")
             [] f.pc = "eps"          -> Bind("eps", c.eps_history, "equity")
             [] f.pc = "equity"       -> Bind("equity", c.equity_history, "operating_cf")
             [] f.pc = "operating_cf" ->
                    Bind("operating_cf", c.operating_cf_history, "free_cf")
             [] f.pc = "free_cf"      -> Bind("free_cf", c.free_cf_history, "result")
             [] f.pc = "result" ->
                    /\ frames' = [frames EXCEPT ![t] =
                           [pc |-> "done", call |-> c,
                            result |-> BigFiveResult_of(l.revenue, l.eps, l.equity,
                                                        l.operating_cf, l.free_cf)]]
                    /\ store' = [store EXCEPT ![t] = NoLocals]
                    /\ UNCHANGED heap
        /\ UNCHANGED <<op, args, ret, servervars>>

\* StickerPriceCalculator.calculate: its arguments are numbers; the one
\* object it reads is self, for self.discount_factor
StickerStep(t) ==
    LET f == frames[t]
        c == f.call
    IN  /\ f.pc = "project"
        /\ c.kind = "sticker"
        /\ frames' = [frames EXCEPT ![t] =
               [pc |-> "done", call |-> c,
                result |-> Sticker_calculate_on(heap[c.self], c.current_eps,
                                                c.eps_growth_rate, c.historical_pe,
                                                c.current_price, c.analyst_growth_rate)]]
        /\ UNCHANGED <<op, args, ret, heap, store, servervars>>

\* one statement of FourMsEvaluator.evaluate
FourMsStep(t) ==
    LET f == frames[t]
        c == f.call
        l == store[t]
        Bind(name, v, read, next) ==
            /\ store' = [store EXCEPT ![t] = [l EXCEPT ![name] = v]]
            /\ heap' = read_only(heap, read)
            /\ frames' = [frames EXCEPT ![t].pc = next]
    IN  /\ f.pc \in {"meaning", "moat", "management", "mos", "resolve"}
        /\ c.kind = "four_ms"
        /\ CASE f.pc = "meaning" ->
                    Bind("meaning",
                         evaluate_meaning(c.symbol, heap[c.revenue_history],
                                          heap[c.net_income_history]),
                         c.revenue_history, "moat")
             [] f.pc = "moat" ->
                    Bind("moat",
                         evaluate_moat(heap[c.roe_history], heap[c.gross_margin_history],
                                       heap[c.operating_margin_history]),
                         c.roe_history, "management")
             [] f.pc = "management" ->
                    Bind("management",
                         evaluate_management(heap[c.roe_history],
                                             heap[c.debt_to_equity_history],
                                             heap[c.fcf_history],
                                             heap[c.net_income_history]),
                         c.fcf_history, "mos")
             [] f.pc = "mos" ->
                    /\ store' = [store EXCEPT ![t] =
                           [l EXCEPT !.mos = evaluate_mos(c.current_price,
                                                          c.sticker_price)]]
                    /\ frames' = [frames EXCEPT ![t].pc = "resolve"]
                    /\ UNCHANGED heap
             [] f.pc = "resolve" ->
                    /\ frames' = [frames EXCEPT ![t] =
                           [pc |-> "done", call |-> c,
                            result |-> FourMsResult_of(l.meaning, l.moat, l.management,
                                                       l.mos, c.big_five_score)]]
                    /\ store' = [store EXCEPT ![t] = NoLocals]
                    /\ UNCHANGED heap
        /\ UNCHANGED <<op, args, ret, servervars>>

\* the caller takes the result
ThreadReturn(t) ==
    /\ frames[t].pc = "done"
    /\ frames' = [frames EXCEPT ![t] = [pc |-> "idle"]]
    /\ UNCHANGED <<op, args, ret, heap, store, servervars>>

NextThreads ==
    \/ Construct
    \/ \E t \in Threads : ThreadCall(t)
    \/ \E t \in Threads : BigFiveStep(t)
    \/ \E t \in Threads : StickerStep(t)
    \/ \E t \in Threads : FourMsStep(t)
    \/ \E t \in Threads : ThreadReturn(t)

SpecThreads == Init /\ [][NextThreads]_vars

(***************************************************************************)
(* routers/calculator.py                                                   *)
(*                                                                         *)
(* The analysis routes read the rows of financial_data, ask the price      *)
(* service for the last traded price and call the calculators.  Responses  *)
(* are held as the calculators' results, before serialisation.             *)
(***************************************************************************)

Raised(r) == "raised" \in DOMAIN r

\* [f.x for f in financials if f.x]
Column(financials, x) ==
    SelectSeq([i \in 1..Len(financials) |-> financials[i][x]], Truthy)

\* [f.x for f in financials if f.x is not None]
ColumnNotNone(financials, x) ==
    SelectSeq([i \in 1..Len(financials) |-> financials[i][x]], LAMBDA v : ~IsNone(v))

\* sum(pe_values) / len(pe_values) if pe_values else 15.0
historical_pe_of(financials) ==
    LET pe_values == Present(Column(financials, "pe_ratio"))
    IN  IF pe_values # <<>> THEN Rat(SeqSum(pe_values), Len(pe_values)) ELSE Whole(15)

\* Python evaluates an argument once, before the call: The({f(x) : x \in {e}})
\* is f applied to the value of e
The(S) == CHOOSE x \in S : TRUE

\* evaluator.evaluate(symbol=..., ..., current_price=..., sticker_price=...)
\* as the routes call it: big_five_score is not passed and takes its
\* default, 5
evaluate_from_rows(symbol, financials, current_price, sticker_price) ==
    The({FourMsResult_of(meaning, moat, management, mos, 5) :
            meaning \in
                {evaluate_meaning(symbol, revenue, net_income) :
                    revenue \in {Column(financials, "revenue")},
                    net_income \in {Column(financials, "net_income")}},
            moat \in
                {evaluate_moat(roe, gross_margin, operating_margin) :
                    roe \in {Column(financials, "roe")},
                    gross_margin \in {Column(financials, "gross_margin")},
                    operating_margin \in {Column(financials, "operating_margin")}},
            management \in
                {evaluate_management(roe, de, fcf, net_income) :
                    roe \in {Column(financials, "roe")},
                    de \in {ColumnNotNone(financials, "debt_to_equity")},
                    fcf \in {Column(financials, "free_cash_flow")},
                    net_income \in {Column(financials, "net_income")}},
            mos \in
                {evaluate_mos_of(price, sticker) :
                    price \in {current_price}, sticker \in {sticker_price}}})

\* big_five_calc.calculate(...) of get_full_analysis: no years_list
big_five_from_rows(financials) ==
    The({BigFive_calculate(revenue, eps, equity, operating_cf, free_cf, <<>>) :
            revenue \in {Column(financials, "revenue")},
            eps \in {ColumnNotNone(financials, "eps")},
            equity \in {Column(financials, "total_equity")},
            operating_cf \in {Column(financials, "operating_cash_flow")},
            free_cf \in {Column(financials, "free_cash_flow")}})

\* sticker_calc.calculate_from_financials(eps_history=..., historical_pe=...,
\* current_price=...) when there are two EPS values or more, else None
sticker_from_rows(financials, current_price) ==
    The({IF Len(eps_history) >= 2
         THEN Some(Sticker_calculate_from_financials(eps_history, Some(historical_pe),
                                                     current_price))
         ELSE None :
            eps_history \in {ColumnNotNone(financials, "eps")},
            historical_pe \in {historical_pe_of(financials)}})

NotFound == [raised |-> "HTTPException", status_code |-> 404]

\* get_full_analysis after the rows and the price are read
full_analysis_of(symbol, financials, current_price, sticker_result) ==
    IF ~IsNone(sticker_result) /\ Raised(Val(sticker_result))
    THEN Val(sticker_result)
    ELSE
      LET four_ms_result ==
              evaluate_from_rows(symbol, financials,
                  IF IsNone(current_price) THEN Whole(0) ELSE Val(current_price),
                  IF IsNone(sticker_result) THEN Whole(0)
                  ELSE Val(sticker_result).sticker_price)
      IN  [symbol         |-> symbol,
           current_price  |-> current_price,
           sticker_price  |-> sticker_result,
           big_five       |-> big_five_from_rows(financials),
           four_ms        |-> four_ms_result,
           data_years     |-> Len(financials),
           recommendation |->
               IF ~IsNone(sticker_result) THEN Val(sticker_result).recommendation
               ELSE Some(four_ms_result.recommendation)]

\* get_full_analysis once the rows are read; price_data is the last traded
\* price or None
full_analysis(symbol, financials, price_data) ==
    IF Len(financials) < 2 THEN NotFound
    ELSE
      LET current_price ==
              IF IsNone(price_data) \/ Val(price_data) = 0 THEN None
              ELSE Some(Whole(Val(price_data)))
      IN  The({full_analysis_of(symbol, financials, current_price, sticker_result) :
                  sticker_result \in {sticker_from_rows(financials, current_price)}})

\* calculate_four_ms after the sticker price is computed; StickerPriceResult
\* has no attribute status
four_ms_route_of(symbol, financials, current_price, sticker_result) ==
    IF IsNone(sticker_result)
    THEN evaluate_from_rows(symbol, financials, current_price, Whole(0))
    ELSE IF Raised(Val(sticker_result)) THEN Val(sticker_result)
    ELSE IF "status" \notin DOMAIN Val(sticker_result)
    THEN [raised |-> "AttributeError"]
    ELSE evaluate_from_rows(symbol, financials, current_price,
             IF Val(sticker_result).status = "CALCULABLE"
             THEN Val(sticker_result).sticker_price ELSE Whole(0))

\* calculate_four_ms
four_ms_route(symbol, financials, price_data) ==
    IF Len(financials) < 2 THEN NotFound
    ELSE
      LET current_price == IF IsNone(price_data) THEN Whole(0) ELSE Whole(Val(price_data))
      IN  The({four_ms_route_of(symbol, financials, current_price, sticker_result) :
                  sticker_result \in {sticker_from_rows(financials, None)}})

\* the stocks row _update_stock_valuation writes
StockRow(status, note) ==
    [sticker_price |-> None, margin_of_safety |-> None, four_m_score |-> None,
     four_m_grade |-> None, recommendation |-> None, valuation_status |-> status,
     valuation_note |-> note]

\* the row for a symbol whose sticker price is computed
valuation_from(symbol, financials, sticker_result) ==
    IF Raised(sticker_result) \/ "status" \notin DOMAIN sticker_result
    THEN [row |-> StockRow("NOT_CALCULABLE", Some("Calculation error")),
          success |-> FALSE]
    ELSE IF sticker_result.status = "NOT_CALCULABLE"
    THEN [row |-> StockRow("NOT_CALCULABLE", Some("Sticker price not calculable")),
          success |-> FALSE]
    ELSE
      LET four_ms_result ==
              evaluate_from_rows(symbol, financials, Whole(0),
                                 sticker_result.sticker_price)
      IN  [row |-> [sticker_price    |-> Some(sticker_result.sticker_price),
                    margin_of_safety |-> Some(sticker_result.margin_of_safety),
                    four_m_score     |-> Some(four_ms_result.overall_score),
                    four_m_grade     |-> Some(four_ms_result.overall_grade),
                    recommendation   |->
                        IF ~IsNone(sticker_result.recommendation)
                        THEN sticker_result.recommendation
                        ELSE Some(four_ms_result.recommendation),
                    valuation_status |-> "CALCULABLE",
                    valuation_note   |-> None],
           success |-> TRUE]

\* the body of the loop of _run_valuation_refresh for one symbol: the row
\* written to stocks and whether success_count (or failed_count) is raised
valuation_of(symbol, financials) ==
    IF Len(financials) < 2
    THEN [row |-> StockRow("NOT_CALCULABLE",
                           Some("Insufficient financial data (need at least 2 years)")),
          success |-> FALSE]
    ELSE
      The({IF IsNone(sticker_result)
           THEN [row |-> StockRow("NOT_CALCULABLE", Some("Insufficient EPS data")),
                 success |-> FALSE]
           ELSE valuation_from(symbol, financials, Val(sticker_result)) :
              sticker_result \in {sticker_from_rows(financials, None)}})

\* last traded prices the price service may report; None: no quote
PriceData == {None, Some(0), Some(1), Some(40), Some(1000)}

\* the rows parse_financial_data may deliver for a company
FetchedTables == {T \in Tables : Len(T) = 3}

\* no refresh task is queued or running
NoTasks(r) == \A q \in RequestIds : tasks[q].pc \in {"none", "finished"}

\* the ingestion adapters store the yearly rows of a company, between requests
LoadFinancials ==
    /\ Idle
    /\ \A r \in RequestIds : requests[r].pc = "idle" /\ NoTasks(r)
    /\ \E T \in Tables : db' = [db EXCEPT !.financial_data["GP"] = T]
    /\ UNCHANGED <<op, args, ret, threadvars, valuation_progress, requests, tasks,
                   scrapevars>>

\* GET /calculate/analysis/{symbol}; with fewer than two rows stored the
\* handler fetches the fundamentals and stores the years it has no row for
CallGetFullAnalysis ==
    /\ Idle
    /\ \E symbol \in {"GP"}, price_data \in PriceData,
          raw_data \in {None} \cup {Some(T) : T \in FetchedTables} :
        LET stored == db.financial_data[symbol]
            financials ==
                IF Len(stored) < 2 /\ ~IsNone(raw_data)
                THEN [i \in 1..Len(Val(raw_data)) |->
                         IF i <= Len(stored) THEN stored[i] ELSE Val(raw_data)[i]]
                ELSE stored
        IN  /\ Len(stored) >= 2 => IsNone(raw_data)
            /\ db' = [db EXCEPT !.financial_data[symbol] = financials]
            /\ op' = "get_full_analysis"
            /\ args' = [symbol |-> symbol, price_data |-> price_data,
                        financials |-> financials]
            /\ ret' = full_analysis(symbol, financials, price_data)
    /\ UNCHANGED <<threadvars, valuation_progress, requests, tasks, scrapevars>>

\* GET /calculate/four-ms/{symbol}
CallCalculateFourMs ==
    /\ Idle
    /\ \E symbol \in {"GP"}, price_data \in PriceData :
        Call("calculate_four_ms",
             [symbol |-> symbol, price_data |-> price_data,
              financials |-> db.financial_data[symbol]],
             four_ms_route(symbol, db.financial_data[symbol], price_data))

\* refresh_valuations: if _valuation_progress["running"]: return already_running
RefreshCheck(r) ==
    /\ requests[r].pc = "idle"
    /\ tasks[r].pc \in {"none", "finished"}
    /\ requests' = [requests EXCEPT ![r] =
           IF valuation_progress.running
           THEN [pc |-> "responded", status |-> "already_running"]
           ELSE [pc |-> "query"]]
    /\ tasks' = [tasks EXCEPT ![r] = [pc |-> "none"]]
    /\ UNCHANGED <<op, args, ret, threadvars, db, valuation_progress, scrapevars>>

\* symbols = the distinct stock_symbol values of financial_data
RefreshQuery(r) ==
    /\ requests[r].pc = "query"
    /\ LET with_rows == {s \in Companies : db.financial_data[s] # <<>>}
           symbols   == SelectSeq(<<"GP", "NEWCO">>, LAMBDA s : s \in with_rows)
       IN  requests' = [requests EXCEPT ![r] =
               IF symbols = <<>>
               THEN [pc |-> "responded", status |-> "no_data"]
               ELSE [pc |-> "reset", symbols |-> symbols]]
    /\ UNCHANGED <<op, args, ret, threadvars, db, valuation_progress, tasks, scrapevars>>

\* _valuation_progress = {"running": True, "current": 0, ...}
RefreshReset(r) ==
    /\ requests[r].pc = "reset"
    /\ valuation_progress' =
           [running |-> TRUE, current |-> 0, total |-> Len(requests[r].symbols),
            current_symbol |-> "", success_count |-> 0, failed_count |-> 0,
            started_at |-> Some("now"), completed_at |-> None]
    /\ requests' = [requests EXCEPT ![r].pc = "enqueue"]
    /\ UNCHANGED <<op, args, ret, threadvars, db, tasks, scrapevars>>

\* background_tasks.add_task(_run_valuation_refresh, symbols); return started
RefreshStarted(r) ==
    /\ requests[r].pc = "enqueue"
    /\ tasks' = [tasks EXCEPT ![r] =
           [pc |-> "loop", symbols |-> requests[r].symbols, i |-> 0]]
    /\ requests' = [requests EXCEPT ![r] = [pc |-> "responded", status |-> "started"]]
    /\ UNCHANGED <<op, args, ret, threadvars, db, valuation_progress, scrapevars>>

\* the client has the response
RefreshAnswered(r) ==
    /\ requests[r].pc = "responded"
    /\ requests' = [requests EXCEPT ![r] = [pc |-> "idle"]]
    /\ UNCHANGED <<op, args, ret, threadvars, db, valuation_progress, tasks, scrapevars>>

\* for i, symbol in enumerate(symbols): if not running: break
TaskLoop(r) ==
    LET k == tasks[r]
    IN  /\ k.pc = "loop"
        /\ IF k.i >= Len(k.symbols) \/ ~valuation_progress.running
           THEN /\ tasks' = [tasks EXCEPT ![r].pc = "finally"]
                /\ UNCHANGED valuation_progress
           ELSE /\ tasks' = [tasks EXCEPT ![r].pc = "valuate"]
                /\ valuation_progress' =
                       [valuation_progress EXCEPT !.current_symbol = k.symbols[k.i + 1]]
        /\ UNCHANGED <<op, args, ret, threadvars, db, requests, scrapevars>>

\* the valuation of one symbol, the stocks row, the counters
TaskValuate(r) ==
    LET k      == tasks[r]
        symbol == k.symbols[k.i + 1]
    IN  /\ k.pc = "valuate"
        /\ \E v \in {valuation_of(symbol, db.financial_data[symbol])} :
            /\ db' = [db EXCEPT !.stocks[symbol] = Some(v.row)]
            /\ valuation_progress' =
                   [valuation_progress EXCEPT
                       !.success_count = IF v.success THEN @ + 1 ELSE @,
                       !.failed_count  = IF v.success THEN @ ELSE @ + 1,
                       !.current       = k.i + 1]
        /\ tasks' = [tasks EXCEPT ![r].pc = "loop", ![r].i = k.i + 1]
        /\ UNCHANGED <<op, args, ret, threadvars, requests, scrapevars>>

\* finally: running = False, completed_at = now
TaskFinally(r) ==
    /\ tasks[r].pc = "finally"
    /\ valuation_progress' =
           [valuation_progress EXCEPT !.running = FALSE, !.completed_at = Some("now")]
    /\ tasks' = [tasks EXCEPT ![r] = [pc |-> "finished"]]
    /\ UNCHANGED <<op, args, ret, threadvars, db, requests, scrapevars>>

\* the analysis routes and one refresh at a time
NextAnalysis ==
    \/ LoadFinancials
    \/ CallGetFullAnalysis
    \/ CallCalculateFourMs
    \/ Return
    \/ RefreshCheck("r1")
    \/ RefreshQuery("r1")
    \/ RefreshReset("r1")
    \/ RefreshStarted("r1")
    \/ RefreshAnswered("r1")
    \/ TaskLoop("r1")
    \/ TaskValuate("r1")
    \/ TaskFinally("r1")

SpecAnalysis == Init /\ [][NextAnalysis]_vars

\* concurrent POST /calculate/refresh-valuations requests
NextRefresh ==
    \/ \E r \in RequestIds : RefreshCheck(r)
    \/ \E r \in RequestIds : RefreshQuery(r)
    \/ \E r \in RequestIds : RefreshReset(r)
    \/ \E r \in RequestIds : RefreshStarted(r)
    \/ \E r \in RequestIds : RefreshAnswered(r)
    \/ \E r \in RequestIds : TaskLoop(r)
    \/ \E r \in RequestIds : TaskValuate(r)
    \/ \E r \in RequestIds : TaskFinally(r)

SpecRefresh == Init /\ [][NextRefresh]_vars

(***************************************************************************)
(* routers/us_stocks.py: the background scrape                             *)
(*                                                                         *)
(* trigger_us_scrape and _run_us_scrape are coroutines of the event loop:  *)
(* each runs without interruption from one await to the next.              *)
(* stop_us_scrape is a plain function and runs on a worker thread, so its  *)
(* statements interleave with the event loop.                              *)
(***************************************************************************)

\* what the stocks query of trigger_us_scrape may select
ScrapeBatches == {<<>>, <<"AAPL">>, ScrapeSymbols}

\* the scrape tasks enqueued and not yet returned
ActiveScrapeTasks ==
    {g \in TriggerIds : scrape_tasks[g].pc \in {"queued", "loop", "scraping", "closing"}}

\* trigger_us_scrape, from the check of running to the response
TriggerScrape(g) ==
    /\ scrape_requests[g].pc = "idle"
    /\ scrape_tasks[g].pc \in {"none", "finished"}
    /\ \E symbols \in ScrapeBatches :
        IF us_scrape_progress.running
        THEN /\ scrape_requests' = [scrape_requests EXCEPT ![g] =
                    [pc |-> "responded", status |-> "already_running"]]
             /\ scrape_tasks' = [scrape_tasks EXCEPT ![g] = [pc |-> "none"]]
             /\ UNCHANGED us_scrape_progress
        ELSE IF symbols = <<>>
        THEN /\ scrape_requests' = [scrape_requests EXCEPT ![g] =
                    [pc |-> "responded", status |-> "no_stocks"]]
             /\ scrape_tasks' = [scrape_tasks EXCEPT ![g] = [pc |-> "none"]]
             /\ UNCHANGED us_scrape_progress
        ELSE /\ us_scrape_progress' =
                    [running |-> TRUE, current |-> 0, total |-> Len(symbols),
                     current_symbol |-> "", success_count |-> 0, failed_count |-> 0,
                     started_at |-> Some("now"), results |-> None]
             /\ scrape_tasks' = [scrape_tasks EXCEPT ![g] =
                    [pc |-> "queued", symbols |-> symbols, i |-> 0, stop |-> "no"]]
             /\ scrape_requests' = [scrape_requests EXCEPT ![g] =
                    [pc |-> "responded", status |-> "started"]]
    /\ UNCHANGED <<op, args, ret, threadvars, refreshvars>>

\* stop_us_scrape: if not _us_scrape_progress["running"]: return not_running
StopCheck(s) ==
    /\ scrape_requests[s].pc = "idle"
    /\ scrape_requests' = [scrape_requests EXCEPT ![s] =
           IF us_scrape_progress.running
           THEN [pc |-> "set"]
           ELSE [pc |-> "responded", status |-> "not_running"]]
    /\ UNCHANGED <<op, args, ret, threadvars, refreshvars, us_scrape_progress, scrape_tasks>>

\* _us_scrape_progress["running"] = False; stop records, for the properties,
\* which tasks were active when the flag was cleared
StopSet(s) ==
    /\ scrape_requests[s].pc = "set"
    /\ us_scrape_progress' = [us_scrape_progress EXCEPT !.running = FALSE]
    /\ scrape_requests' = [scrape_requests EXCEPT ![s].pc = "respond"]
    /\ scrape_tasks' = [g \in TriggerIds |->
           IF g \in ActiveScrapeTasks THEN [scrape_tasks[g] EXCEPT !.stop = "set"]
           ELSE scrape_tasks[g]]
    /\ UNCHANGED <<op, args, ret, threadvars, refreshvars>>

\* return {"status": "stopping", ..., "scraped_so_far": current}
StopRespond(s) ==
    /\ scrape_requests[s].pc = "respond"
    /\ scrape_requests' = [scrape_requests EXCEPT ![s] =
           [pc |-> "responded", status |-> "stopping",
            scraped_so_far |-> us_scrape_progress.current]]
    /\ scrape_tasks' = [g \in TriggerIds |->
           IF g \in ActiveScrapeTasks /\ scrape_tasks[g].stop = "set"
           THEN [scrape_tasks[g] EXCEPT !.stop = "answered"]
           ELSE scrape_tasks[g]]
    /\ UNCHANGED <<op, args, ret, threadvars, refreshvars, us_scrape_progress>>

\* the client has the response
ScrapeAnswered(r) ==
    /\ scrape_requests[r].pc = "responded"
    /\ scrape_requests' = [scrape_requests EXCEPT ![r] = [pc |-> "idle"]]
    /\ UNCHANGED <<op, args, ret, threadvars, refreshvars, us_scrape_progress, scrape_tasks>>

\* the head of the loop of _run_us_scrape, up to await service.scrape_stock
\* or, on break, up to the await of the client's close
ScrapeLoop(g) ==
    LET k == scrape_tasks[g]
    IN  /\ k.pc \in {"queued", "loop"}
        /\ IF ~us_scrape_progress.running
           THEN /\ us_scrape_progress' =
                       [us_scrape_progress EXCEPT !.results = Some("results")]
                /\ scrape_tasks' = [scrape_tasks EXCEPT ![g].pc = "closing"]
           ELSE /\ us_scrape_progress' =
                       [us_scrape_progress EXCEPT !.current_symbol = k.symbols[k.i + 1]]
                /\ scrape_tasks' = [scrape_tasks EXCEPT ![g].pc = "scraping"]
        /\ UNCHANGED <<op, args, ret, threadvars, refreshvars, scrape_requests>>

\* scrape_stock has answered or raised: save, count, current = i + 1, then
\* sleep before the next stock or leave the loop
ScrapeStock(g) ==
    LET k == scrape_tasks[g]
    IN  /\ k.pc = "scraping"
        /\ \E scraped \in BOOLEAN :
            us_scrape_progress' =
                [us_scrape_progress EXCEPT
                    !.success_count = IF scraped THEN @ + 1 ELSE @,
                    !.failed_count  = IF scraped THEN @ ELSE @ + 1,
                    !.current       = k.i + 1,
                    !.results       = IF k.i + 1 < Len(k.symbols) THEN @
                                      ELSE Some("results")]
        /\ scrape_tasks' = [scrape_tasks EXCEPT
               ![g].i  = k.i + 1,
               ![g].pc = IF k.i + 1 < Len(k.symbols) THEN "loop" ELSE "closing"]
        /\ UNCHANGED <<op, args, ret, threadvars, refreshvars, scrape_requests>>

\* finally: _us_scrape_progress["running"] = False
ScrapeFinally(g) ==
    /\ scrape_tasks[g].pc = "closing"
    /\ us_scrape_progress' = [us_scrape_progress EXCEPT !.running = FALSE]
    /\ scrape_tasks' = [scrape_tasks EXCEPT ![g].pc = "finished"]
    /\ UNCHANGED <<op, args, ret, threadvars, refreshvars, scrape_requests>>

NextScrape ==
    \/ \E g \in TriggerIds : TriggerScrape(g)
    \/ \E s \in StopIds : StopCheck(s)
    \/ \E s \in StopIds : StopSet(s)
    \/ \E s \in StopIds : StopRespond(s)
    \/ \E r \in TriggerIds \cup StopIds : ScrapeAnswered(r)
    \/ \E g \in TriggerIds : ScrapeLoop(g)
    \/ \E g \in TriggerIds : ScrapeStock(g)
    \/ \E g \in TriggerIds : ScrapeFinally(g)

SpecScrape == Init /\ [][NextScrape]_vars

(***************************************************************************)
(* Properties of the Big Five calculator                                   *)
(***************************************************************************)
\* counts taken from the argument, independently of the calculator
PosIdx(values) == {i \in 1..Len(values) : values[i] # <<>> /\ values[i][1] > 0}

NegIdx(values) == {i \in 1..Len(values) : values[i] # <<>> /\ values[i][1] < 0}

NumPos(values) == Cardinality(PosIdx(values))

NumNeg(values) == Cardinality(NegIdx(values))

MinOf(S) == CHOOSE x \in S : \A y \in S : x <= y

MaxOf(S) == CHOOSE x \in S : \A y \in S : x >= y

\* the pattern the classification rules give for P positive and N negative values
RulePattern(P, N) ==
    IF P + N = 0 THEN "no_data"
    ELSE IF 10 * N >= 7 * (P + N) THEN "negative"
    ELSE IF 10 * N >= 3 * (P + N) THEN "inconsistent"
    ELSE "normal"

\* C5: with P values > 0, N values < 0 and T = P + N (null and zero not
\* counted), _analyze_values answers no_data iff T = 0, else negative iff
\* N/T >= 0.7, else inconsistent iff N/T >= 0.3, else normal; both boundaries
\* are inclusive (3 of 10 inconsistent, 7 of 10 negative, 2 of 10 normal).
C5_PatternClassification ==
    op = "analyze_values" =>
        LET P == NumPos(args.values)
            N == NumNeg(args.values)
        IN  /\ ret.pattern = RulePattern(P, N)
            /\ (N = 3 /\ P = 7) => ret.pattern = "inconsistent"
            /\ (N = 7 /\ P = 3) => ret.pattern = "negative"
            /\ (N = 2 /\ P = 8) => ret.pattern = "normal"

\* a series of 3 losses and 7 profits, padded with a null and a zero
C5_Witness ==
    /\ op = "analyze_values"
    /\ NumNeg(args.values) = 3
    /\ NumPos(args.values) = 7
    /\ Len(args.values) = 12
    /\ ret.pattern = "inconsistent"

\* C6: passes is true iff status is STRONG or PASS; an INCONSISTENT series
\* does not pass whatever its CAGR, and NEGATIVE and NO_DATA do not pass.
C6_PassesIffStrongOrPass ==
    op = "evaluate_growth" =>
        /\ ret.passes <=> ret.status \in {"STRONG", "PASS"}
        /\ RulePattern(NumPos(args.values), NumNeg(args.values)) = "inconsistent"
             => (ret.status = "INCONSISTENT" /\ ~ret.passes)
        /\ ret.status \in {"INCONSISTENT", "NEGATIVE", "NO_DATA"} => ~ret.passes

\* an INCONSISTENT metric whose positive sub-series grows by 10% or more
C6_Witness ==
    /\ op = "evaluate_growth"
    /\ ret.status = "INCONSISTENT"
    /\ ret.cagr.e * 10 >= ret.cagr.s * 11
    /\ ret.cagr.n = 1
    /\ ~ret.passes

\* C7: a series with fewer than two positive observations is reported as
\* NO_DATA (NEGATIVE when it classifies so) with a note and no growth rate,
\* never with a number and a scored status.
C7_FewPointsNoData ==
    (op = "evaluate_growth" /\ NumPos(args.values) < 2) =>
        /\ ret.status \in {"NO_DATA", "NEGATIVE"}
        /\ ret.cagr_pct = None
        /\ ret.note # None

WellFormedYears(a) == a.years_list = <<>> \/ Len(a.years_list) = Len(a.values)

\* C9: calculate_cagr takes as time base the fiscal-year difference between
\* the first and last positive observation when years are supplied, and
\* their index difference otherwise; never the number of surviving points.
C9_TimeBase ==
    (op = "calculate_cagr" /\ WellFormedYears(args) /\ NumPos(args.values) >= 2) =>
        LET first == MinOf(PosIdx(args.values))
            last  == MaxOf(PosIdx(args.values))
            span  == IF args.years_list # <<>>
                     THEN args.years_list[last] - args.years_list[first]
                     ELSE last - first
        IN  ret = [e |-> args.values[last][1], s |-> args.values[first][1],
                   n |-> span, times |-> 1, dp |-> None]

\* 10 in 2018 and 20 in 2023: two surviving points, span 5
C9_Witness ==
    /\ op = "calculate_cagr"
    /\ args.values = <<Some(10), Some(20)>>
    /\ args.years_list = <<2018, 2023>>
    /\ ret.n = 5

\* C10: for a normal series the CAGR maps to STRONG when >= 0.15, PASS when
\* >= 0.10, WEAK when >= 0.05 and FAIL otherwise; a flat positive series has
\* CAGR 0 and status FAIL.
C10_StatusThresholds ==
    (op = "evaluate_growth"
       /\ RulePattern(NumPos(args.values), NumNeg(args.values)) = "normal") =>
        LET c == ret.cagr
            \* the rate is at least num/den (0.15 = 3/20, 0.10 = 2/20, 0.05 = 1/20)
            AtLeast(num, den) == c.e * Pow(den, c.n) >= c.s * Pow(den + num, c.n)
        IN  /\ ret.status = IF AtLeast(3, 20) THEN "STRONG"
                            ELSE IF AtLeast(2, 20) THEN "PASS"
                            ELSE IF AtLeast(1, 20) THEN "WEAK"
                            ELSE "FAIL"
            /\ (NumPos(args.values) >= 2
                  /\ \A i, j \in PosIdx(args.values) : args.values[i] = args.values[j])
                 => (c.e = c.s /\ ret.status = "FAIL")

\* the flat series 10, 10, 10
C10_Witness ==
    /\ op = "evaluate_growth"
    /\ args.values = <<Some(10), Some(10), Some(10)>>
    /\ ret.cagr.e = ret.cagr.s
    /\ ret.status = "FAIL"

\* the five metrics of a BigFiveResult
FiveMetrics(r) == <<r.revenue, r.eps, r.equity, r.operating_cf, r.free_cf>>

PassCount(r) == Cardinality({i \in 1..5 : FiveMetrics(r)[i].passes})

\* C11: in every BigFiveResult the score is the number of the five metrics
\* that pass, so it lies in 0..5; passes holds iff the score is at least 3;
\* the grade is A for 5, B for 4, C for 3, D for 2 and F for 0 or 1.
C11_ScorePassesGrade ==
    op = "calculate" =>
        /\ ret.score = PassCount(ret)
        /\ ret.score \in 0..5
        /\ ret.passes <=> ret.score >= 3
        /\ ret.grade = CASE ret.score = 5 -> "A"
                          [] ret.score = 4 -> "B"
                          [] ret.score = 3 -> "C"
                          [] ret.score = 2 -> "D"
                          [] ret.score \in {0, 1} -> "F"

\* exactly one passing metric among five: score 1, failing, grade F
C11_Witness ==
    /\ op = "calculate"
    /\ ret.revenue.passes
    /\ ~ret.eps.passes /\ ~ret.equity.passes
    /\ ~ret.operating_cf.passes /\ ~ret.free_cf.passes
    /\ ret.score = 1
    /\ ~ret.passes
    /\ ret.grade = "F"

(***************************************************************************)
(* Properties of the sticker price calculator                              *)
(***************************************************************************)
\* r is a NOT_CALCULABLE result: a status, a note, and no sticker price
NotCalculable(r) ==
    /\ "status" \in DOMAIN r
    /\ r.status = "NOT_CALCULABLE"
    /\ "note" \in DOMAIN r
    /\ r.note # None
    /\ ("sticker_price" \in DOMAIN r => r.sticker_price = None)

\* r is a CALCULABLE result with a sticker price
Calculable(r) ==
    /\ "status" \in DOMAIN r
    /\ r.status = "CALCULABLE"
    /\ "sticker_price" \in DOMAIN r
    /\ r.sticker_price # None

\* C4: calculate_from_financials returns NOT_CALCULABLE with a note and no
\* sticker price when the EPS history has fewer than two positive values or
\* classifies as NEGATIVE, INCONSISTENT or NO_DATA, and a CALCULABLE numeric
\* result only otherwise.
C4_DataQualityGate ==
    op = "calculate_from_financials" =>
        LET P == NumPos(args.eps_history)
            N == NumNeg(args.eps_history)
        IN  IF P < 2 \/ RulePattern(P, N) # "normal"
            THEN NotCalculable(ret)
            ELSE Calculable(ret)

(***************************************************************************)
(* Properties of the Four Ms evaluator                                     *)
(***************************************************************************)
\* 0.20 * Meaning + 0.30 * Moat + 0.20 * Management + 0.30 * MOS of a result
Composite(r) ==
    RatAdd(RatAdd(RatMul(Rat(1, 5), r.meaning.score), RatMul(Rat(3, 10), r.moat.score)),
           RatAdd(RatMul(Rat(1, 5), r.management.score), RatMul(Rat(3, 10), r.mos.score)))

\* the letter band of a score: A from 85, B from 70, C from 55, D from 40
GradeBand(x) ==
    CASE RatLE(Whole(85), x) -> "A"
      [] RatLE(Whole(70), x) /\ RatLT(x, Whole(85)) -> "B"
      [] RatLE(Whole(55), x) /\ RatLT(x, Whole(70)) -> "C"
      [] RatLE(Whole(40), x) /\ RatLT(x, Whole(55)) -> "D"
      [] RatLT(x, Whole(40)) -> "F"

\* C1: when evaluate is called with a Big Five score of 0, 1 or 2, the
\* recommendation is AVOID if the margin-of-safety sub-score recommends SELL
\* or the penalized overall score is below 40, and HOLD otherwise; it is
\* never BUY or STRONG_BUY.
C1_FailedBigFiveCapsAtHold ==
    (op = "evaluate" /\ args.big_five_score \in {0, 1, 2}) =>
        /\ ret.recommendation =
               IF ret.mos.recommendation = "SELL" \/ RatLT(ret.overall_score, Whole(40))
               THEN "AVOID"
               ELSE "HOLD"
        /\ ret.recommendation \notin {"BUY", "STRONG_BUY"}

\* a composite of at least 90 under a STRONG_BUY margin of safety, Big Five
\* score 1: the recommendation is held at HOLD
C1_Witness ==
    /\ op = "evaluate"
    /\ args.big_five_score = 1
    /\ ret.mos.recommendation = "STRONG_BUY"
    /\ RatLE(Whole(90), Composite(ret))
    /\ RatLE(Whole(60), ret.overall_score)
    /\ ret.recommendation = "HOLD"

\* C2: when evaluate is called with a Big Five score of 3 or more, the
\* recommendation is the margin-of-safety recommendation when that is
\* STRONG_BUY or BUY and the overall score is at least 60; otherwise AVOID
\* when the margin-of-safety recommendation is SELL or the overall score is
\* below 40; otherwise HOLD.
C2_RecommendationLadder ==
    (op = "evaluate" /\ args.big_five_score >= 3) =>
        LET signal  == ret.mos.recommendation
            passes  == signal \in {"STRONG_BUY", "BUY"} /\ RatLE(Whole(60), ret.overall_score)
            avoids  == signal = "SELL" \/ RatLT(ret.overall_score, Whole(40))
        IN  /\ passes => ret.recommendation = signal
            /\ (~passes /\ avoids) => ret.recommendation = "AVOID"
            /\ (~passes /\ ~avoids) => ret.recommendation = "HOLD"
            /\ ret.recommendation \in {"STRONG_BUY", "BUY"} => passes

\* a BUY signal with an overall score between 50 and 60 and a passing Big
\* Five score does not pass through
C2_Witness ==
    /\ op = "evaluate"
    /\ args.big_five_score = 3
    /\ ret.mos.recommendation = "BUY"
    /\ RatLE(Whole(50), ret.overall_score)
    /\ RatLT(ret.overall_score, Whole(60))
    /\ ret.recommendation = "HOLD"

\* C3: in evaluate the Big Five penalty is 10 for score 2, 20 for score 1,
\* 30 for score 0 and 0 for score 3 or more; the overall score is
\* max(0, weighted sum of the four sub-scores - penalty); the overall grade
\* is the band of the penalized overall score; the warning is set exactly
\* when the score is below 3.
C3_PenaltyScoreGradeWarning ==
    op = "evaluate" =>
        LET s == args.big_five_score
        IN  /\ s = 2 => ret.big_five_penalty = 10
            /\ s = 1 => ret.big_five_penalty = 20
            /\ s = 0 => ret.big_five_penalty = 30
            /\ s >= 3 => ret.big_five_penalty = 0
            /\ ret.overall_score =
                   RatMax(Whole(0), RatSub(Composite(ret), Whole(ret.big_five_penalty)))
            /\ ret.overall_grade = GradeBand(ret.overall_score)
            /\ ret.big_five_warning <=> s < 3

\* an A-band composite penalized by 20 into the B band
C3_Witness ==
    /\ op = "evaluate"
    /\ args.big_five_score = 1
    /\ ret.big_five_warning
    /\ ret.big_five_penalty = 20
    /\ GradeBand(Composite(ret)) = "A"
    /\ ret.overall_score = RatSub(Composite(ret), Whole(20))
    /\ ret.overall_grade = "B"

(***************************************************************************)
(* Properties of StickerPriceCalculator.calculate                          *)
(***************************************************************************)
Returned(r) == "raised" \notin DOMAIN r

\* a one-period rate (e - s) / s as a fraction
RateAsRat(c) == Rat(c.e - c.s, c.s)

Clamp(x, lo, hi) == RatMax(lo, RatMin(x, hi))

\* C12: calculate uses the growth rate clamp(base, 0.01, 0.15), where base
\* is min(historical, analyst) when an analyst estimate is supplied (an
\* estimate of 0 included) and the historical rate otherwise; the rate used
\* is always within [0.01, 0.15].
C12_GrowthClamp ==
    /\ (op = "sticker_calculate" /\ Returned(ret)) =>
           LET historical == RateAsRat(args.eps_growth_rate)
               base == IF args.analyst_growth_rate # None
                       THEN RatMin(historical, RateAsRat(Val(args.analyst_growth_rate)))
                       ELSE historical
           IN  ret.used_growth_rate = Clamp(base, Rat(1, 100), Rat(15, 100))
    /\ (op \in {"sticker_calculate", "calculate_from_financials"} /\ Returned(ret)) =>
           /\ RatLE(Rat(1, 100), ret.used_growth_rate)
           /\ RatLE(ret.used_growth_rate, Rat(15, 100))

\* a historical rate of 30% with an analyst estimate of 0: the floor of 1%
C12_Witness ==
    /\ op = "sticker_calculate"
    /\ args.eps_growth_rate = PctRate(30)
    /\ args.analyst_growth_rate = Some(PctRate(0))
    /\ Returned(ret)
    /\ ret.used_growth_rate = Rat(1, 100)

\* C13: in every StickerPriceResult future_pe is
\* clamp(min(used growth percent * 2, historical_pe), 5, 50) when
\* historical_pe > 0 and clamp(used growth percent * 2, 5, 50) otherwise, so
\* it is never below 5 or above 50.
C13_FuturePE ==
    (op \in {"sticker_calculate", "calculate_from_financials"} /\ Returned(ret)) =>
        LET growth_implied == RatMul(RatMul(ret.used_growth_rate, Whole(100)), Whole(2))
            historical     == Val(args.historical_pe)
            chosen         == IF RatLT(Whole(0), historical)
                              THEN RatMin(growth_implied, historical)
                              ELSE growth_implied
        IN  /\ ret.future_pe = Clamp(chosen, Whole(5), Whole(50))
            /\ RatLE(Whole(5), ret.future_pe)
            /\ RatLE(ret.future_pe, Whole(50))

\* a historical P/E of 4, below the floor: future_pe is 5
C13_Witness ==
    /\ op = "sticker_calculate"
    /\ Returned(ret)
    /\ args.historical_pe = Some(Whole(4))
    /\ RatLT(Whole(4), RatMul(ret.used_growth_rate, Whole(200)))
    /\ ret.future_pe = Whole(5)

\* a < b for two large fractions: cross multiplication after removing the
\* factors common to the two numerators and to the two denominators
Below(a, b) ==
    LET gd == GCD(a.den, b.den)
        gn == IF a.num = 0 \/ b.num = 0 THEN 1 ELSE GCD(Abs(a.num), Abs(b.num))
    IN  (a.num \div gn) * (b.den \div gd) < (b.num \div gn) * (a.den \div gd)

\* two calls of calculate that differ in historical_pe only, with a positive
\* current_eps and both historical_pe values below the growth-implied P/E
PEPair ==
    /\ op = "sticker_calculate_again"
    /\ args.first.current_eps = args.second.current_eps
    /\ RatLT(Whole(0), Val(args.first.current_eps))
    /\ RatLT(Val(args.first.historical_pe), Val(args.second.historical_pe))
    /\ Returned(ret.first) /\ Returned(ret.second)
    /\ RatLT(Val(args.second.historical_pe),
             RatMul(ret.first.used_growth_rate, Whole(200)))

EpsPair ==
    /\ op = "sticker_calculate_again"
    /\ args.first.historical_pe = args.second.historical_pe
    /\ RatLT(Val(args.first.current_eps), Val(args.second.current_eps))

\* C15: with growth rate, historical_pe and all other arguments fixed, for
\* any two current_eps values e1 < e2 calculate returns a strictly larger
\* sticker_price and margin_of_safety for e2 than for e1.
C15_StrictlyIncreasingInEps ==
    EpsPair =>
        /\ Returned(ret.first) /\ Returned(ret.second)
        /\ Below(ret.first.sticker_price, ret.second.sticker_price)
        /\ Below(ret.first.margin_of_safety, ret.second.margin_of_safety)

\* a live price: one that is supplied and positive
LivePrice(p) == p # None /\ RatLT(Whole(0), Val(p))

\* the recommendation ladder against sticker price s, with MOS = 0.5 * s
Ladder(price, s) ==
    LET m == RatMul(Rat(1, 2), s)
    IN  CASE RatLT(price, m) -> "STRONG_BUY"
          [] RatLE(m, price) /\ RatLT(price, s) -> "BUY"
          [] RatLE(s, price) /\ RatLT(price, RatMul(Rat(5, 4), s)) -> "HOLD"
          [] OTHER -> "SELL"

\* C16: whenever a live price is supplied to calculate, the result carries
\* discount_to_sticker, discount_to_mos and a recommendation, which is
\* STRONG_BUY iff price < MOS, BUY iff MOS <= price < sticker, HOLD iff
\* sticker <= price < 1.25 * sticker and SELL otherwise, with
\* MOS = 0.5 * sticker; without a live price the three fields are absent.
C16_LivePriceFields ==
    op = "sticker_calculate" =>
        IF LivePrice(args.current_price)
        THEN /\ Returned(ret)
             /\ ret.discount_to_sticker # None
             /\ ret.discount_to_mos # None
             /\ ret.margin_of_safety = RatMul(Rat(1, 2), ret.sticker_price)
             /\ ret.recommendation =
                    Some(Ladder(Val(args.current_price), ret.sticker_price))
        ELSE /\ Returned(ret)
             /\ ret.discount_to_sticker = None
             /\ ret.discount_to_mos = None
             /\ ret.recommendation = None

(***************************************************************************)
(* Properties of the Four Ms sub-scores                                    *)
(***************************************************************************)
\* C17: for every pair of current price and sticker price, zero and
\* negative sticker prices included, the recommendation of evaluate_mos
\* equals the one _get_recommendation gives for the same price, the same
\* sticker price and MOS = 0.5 * sticker.
C17_SameRecommendation ==
    op = "get_recommendation" =>
        /\ args.mos = RatMul(Rat(1, 2), args.sticker_price)
        /\ args.evaluated.current_price = args.current_price
        /\ args.evaluated.sticker_price = args.sticker_price
        /\ ret = args.evaluated.recommendation

\* a price 15% above the sticker price: HOLD from both
C17_Witness ==
    /\ op = "get_recommendation"
    /\ args.sticker_price = Whole(100)
    /\ args.current_price = Whole(115)
    /\ args.evaluated.score = Whole(25)
    /\ args.evaluated.recommendation = "HOLD"
    /\ ret = "HOLD"

\* C18: the margin-of-safety sub-score of evaluate_mos is 100 for every
\* current price at or below the MOS price 0.5 * sticker, 10 for every
\* current price at or above 1.25 * sticker, and within [10, 100] for every
\* other price (stated for a positive sticker price, where the three cases
\* are disjoint).
C18_MosScoreBands ==
    (op = "evaluate_mos" /\ args.sticker_price > 0) =>
        LET price   == Whole(args.current_price)
            sticker == Whole(args.sticker_price)
        IN  /\ RatLE(price, RatMul(Rat(1, 2), sticker)) => ret.score = Whole(100)
            /\ RatLE(RatMul(Rat(5, 4), sticker), price) => ret.score = Whole(10)
            /\ RatLE(Whole(10), ret.score) /\ RatLE(ret.score, Whole(100))

InScoreRange(x) == RatLE(Whole(0), x) /\ RatLE(x, Whole(100))

\* C19: for every input to evaluate (histories that are empty, hold nulls,
\* negative or out-of-range values, any prices, any Big Five score) each of
\* the four sub-scores and the overall score lies in [0, 100].
C19_ScoresInRange ==
    /\ op = "evaluate" =>
           /\ InScoreRange(ret.meaning.score)
           /\ InScoreRange(ret.moat.score)
           /\ InScoreRange(ret.management.score)
           /\ InScoreRange(ret.mos.score)
           /\ InScoreRange(ret.overall_score)
    /\ op \in {"evaluate_meaning", "evaluate_moat", "evaluate_management",
               "evaluate_mos"} => InScoreRange(ret.score)

\* a composite below the penalty of 30: the overall score stops at 0
C19_Witness ==
    /\ op = "evaluate"
    /\ args.big_five_score = 0
    /\ args.revenue_history = <<>>
    /\ args.sticker_price <= 0
    /\ RatLT(Composite(ret), Whole(30))
    /\ ret.overall_score = Whole(0)

\* the ROE observations of a history that are present and within [-100, 100]
InRangeRoe(h) == {i \in 1..Len(h) : h[i] # None /\ Val(h[i]) >= -100 /\ Val(h[i]) <= 100}

\* C20: in evaluate_moat null ROE observations and those outside
\* [-100, 100] have no influence on the ROE-level and ROE-consistency
\* scores: adding or removing one leaves both unchanged; when no in-range
\* ROE remains the ROE-level score is the neutral 15 and the consistency
\* score the neutral 10, and an explanatory note is attached.
C20_RoeSentinelsIgnored ==
    /\ op = "evaluate_moat_again" =>
           /\ ret.first.score_breakdown.ROE_Level = ret.second.score_breakdown.ROE_Level
           /\ ret.first.score_breakdown.ROE_Consistency =
                  ret.second.score_breakdown.ROE_Consistency
    /\ (op = "evaluate_moat" /\ InRangeRoe(args.roe_history) = {}) =>
           /\ ret.score_breakdown.ROE_Level = 15
           /\ ret.score_breakdown.ROE_Consistency = 10
           /\ \E i \in 1..Len(ret.notes) :
                  ret.notes[i] = "ROE unavailable (negative equity from stock buybacks)"

\* an ROE of 101 added to two in-range observations: both scores unchanged
C20_Witness ==
    /\ op = "evaluate_moat_again"
    /\ args.first.roe_history = <<Some(100), Some(12)>>
    /\ args.second.roe_history = <<Some(100), Some(101), Some(12)>>
    /\ ret.first.score_breakdown.ROE_Level = 30
    /\ ret.second.score_breakdown.ROE_Level = 30
    /\ ret.first.score_breakdown.ROE_Consistency = ret.second.score_breakdown.ROE_Consistency

\* the debt-to-equity observations of a history that are present and not
\* negative
MeaningfulDe(h) == SelectSeq(h, LAMBDA d : d # None /\ Val(d) >= 0)

\* C21: in evaluate_management null and negative debt-to-equity
\* observations are excluded from the D/E average: the debt score is the one
\* the remaining observations earn alone, and when none remains it is the
\* neutral 20 with the note "Debt/equity ratio N/A (negative equity)".
C21_NegativeDeExcluded ==
    op = "evaluate_management" =>
        LET h    == args.debt_to_equity_history
            kept == MeaningfulDe(h)
        IN  /\ kept = <<>> =>
                   /\ ret.score_breakdown.Debt_Management = 20
                   /\ \E i \in 1..Len(ret.notes) :
                          ret.notes[i] = "Debt/equity ratio N/A (negative equity)"
            /\ ret.score_breakdown.Debt_Management =
                   evaluate_management(args.roe_history, kept, args.fcf_history,
                                       args.net_income_history).score_breakdown.Debt_Management

\* C22: calculate and calculate_from_financials return a result value for
\* every data input (any current EPS, any EPS history, a null last entry
\* included, any historical P/E, any live price); they never raise.
C22_StickerNeverRaises ==
    op \in {"sticker_calculate", "calculate_from_financials"} => Returned(ret)

(***************************************************************************)
(* Call contracts                                                          *)
(***************************************************************************)

\* a years list was passed and its length differs from that of the series
Mismatched(values, years_list) == years_list # <<>> /\ Len(years_list) # Len(values)

\* C23: calculate_cagr and calculate called with a years list whose length
\* differs from that of a value series end in an error; they return no
\* growth figure.
C23_MismatchedYearsFailFast ==
    /\ (op = "calculate_cagr" /\ Mismatched(args.values, args.years_list)) => ~Returned(ret)
    /\ (op = "calculate" /\ Mismatched(args.eps_history, args.years_list)) => ~Returned(ret)

\* C24: evaluate called with a big_five_score outside 0..5 ends in an error;
\* it returns no FourMsResult, so no penalty and warning are produced.
C24_OutOfRangeScoreRaises ==
    (op = "evaluate" /\ args.big_five_score \notin 0..5) => ~Returned(ret)

(***************************************************************************)
(* Properties of concurrent calls                                          *)
(***************************************************************************)

\* what a call returns when it is the only one running, on a fresh
\* calculator and on the lists as they were passed
Alone(c) ==
    CASE c.kind = "big_five" ->
             BigFive_calculate(ListsInit[c.revenue_history], ListsInit[c.eps_history],
                               ListsInit[c.equity_history],
                               ListsInit[c.operating_cf_history],
                               ListsInit[c.free_cf_history], ListsInit[c.years_list])
      [] c.kind = "sticker" ->
             Sticker_calculate(c.current_eps, c.eps_growth_rate, c.historical_pe,
                               c.current_price, c.analyst_growth_rate)
      [] c.kind = "four_ms" ->
             FourMs_evaluate([symbol |-> c.symbol,
                              revenue_history |-> ListsInit[c.revenue_history],
                              net_income_history |-> ListsInit[c.net_income_history],
                              roe_history |-> ListsInit[c.roe_history],
                              gross_margin_history |-> ListsInit[c.gross_margin_history],
                              operating_margin_history |->
                                  ListsInit[c.operating_margin_history],
                              debt_to_equity_history |->
                                  ListsInit[c.debt_to_equity_history],
                              fcf_history |-> ListsInit[c.fcf_history],
                              current_price |-> c.current_price,
                              sticker_price |-> c.sticker_price,
                              big_five_score |-> c.big_five_score])

\* the arguments of a call, without the calculator object it was made on
Inputs(c) == [x \in DOMAIN c \ {"self"} |-> c[x]]

SameRate(a, b) == RateLE(a, b) /\ RateLE(b, a)

\* C26: the growth rate calculate_from_financials derives from an EPS
\* history (StickerPriceCalculator.calculate_cagr) equals the CAGR of
\* BigFiveCalculator.calculate_cagr for the same history without a years
\* list, whatever lies between the first and last positive observation.
C26_SameGrowthRate ==
    /\ op = "sticker_calculate_cagr" =>
           SameRate(ret, BigFive_calculate_cagr(args.values, <<>>))
    /\ (op = "calculate_from_financials" /\ Returned(ret)) =>
           SameRate(ret.eps_growth_rate, BigFive_calculate_cagr(args.eps_history, <<>>))

(***************************************************************************)
(* Properties of FourMsEvaluator._get_trend                                *)
(***************************************************************************)

\* the trend between the means of the first and the last n div 3 non-null
\* values
EqualThirdsTrend(values) ==
    LET valid == Present(values)
        n     == Len(valid)
        k     == n \div 3
    IN  IF n < 3 THEN "Stable"
        ELSE
          LET sum_first == SeqSum(SubSeq(valid, 1, k))
              sum_last  == SeqSum(SubSeq(valid, n - k + 1, n))
          IN  IF sum_first = 0 THEN "Stable"
              ELSE IF 10 * (sum_last - sum_first) > Abs(sum_first) THEN "Growing"
              ELSE IF 10 * (sum_last - sum_first) < -Abs(sum_first) THEN "Declining"
              ELSE "Stable"

\* C28: _get_trend compares the mean of the first n div 3 non-null values
\* with the mean of the last n div 3 (two windows of the same size for
\* every n >= 3): Growing when the last mean exceeds the first by more than
\* 10%, Declining when it is lower by more than 10%, Stable otherwise, also
\* for fewer than 3 values or a zero first mean.
C28_TrendOfEqualThirds ==
    op = "get_trend" => ret = EqualThirdsTrend(args.values)

(***************************************************************************)
(* Properties of the analysis routes                                       *)
(***************************************************************************)

Buy == {"BUY", "STRONG_BUY"}

\* the Big Five score of the rows is below 3
WeakBigFive(financials) == big_five_from_rows(financials).score < 3

\* C27: on every analysis path (get_full_analysis, calculate_four_ms, the
\* batch _run_valuation_refresh) the Big Five verdict of the company reaches
\* the Four Ms evaluation: a company whose Big Five score is below 3 is
\* never answered, and never cached, with the recommendation BUY or
\* STRONG_BUY.
C27_WeakBigFiveNeverBuy ==
    /\ [](/\ (op = "get_full_analysis" /\ Returned(ret) /\ WeakBigFive(args.financials))
                 => (IsNone(ret.recommendation) \/ Val(ret.recommendation) \notin Buy)
          /\ (op = "calculate_four_ms" /\ Returned(ret) /\ WeakBigFive(args.financials))
                 => ret.recommendation \notin Buy)
    /\ [][\A s \in Companies :
             (db'.stocks[s] # db.stocks[s] /\ WeakBigFive(db.financial_data[s]))
                 => (IsNone(Val(db'.stocks[s]).recommendation)
                       \/ Val(Val(db'.stocks[s]).recommendation) \notin Buy)]_vars

(***************************************************************************)
(* Properties of the valuation refresh                                     *)
(***************************************************************************)

\* the refresh tasks enqueued and not yet returned
ActiveRefreshTasks == {r \in RequestIds : tasks[r].pc \in {"loop", "valuate", "finally"}}

\* C29: at most one _run_valuation_refresh task is active at any time,
\* under every interleaving of concurrent POST /calculate/refresh-valuations
\* requests: a request that finds or races with a running refresh is
\* answered already_running and enqueues no second task, and the progress
\* record is reset only when no refresh is running.
C29_OneRefreshAtATime ==
    /\ Cardinality(ActiveRefreshTasks) <= 1
    /\ \A r \in RequestIds : requests[r].pc = "enqueue" => ActiveRefreshTasks = {}
    /\ \A r \in RequestIds :
           (requests[r].pc = "responded" /\ requests[r].status = "started")
               => ActiveRefreshTasks \subseteq {r}

(***************************************************************************)
(* Properties of the background scrape                                     *)
(***************************************************************************)

\* C30: once stop-scrape has answered stopping, the scrape task that was
\* running starts no further stock after its current one and ends with
\* running = false, under every interleaving with other requests, a new
\* trigger-scrape before the task has seen the flag included.
C30_StoppedTaskStartsNoStock ==
    [][\A g \in TriggerIds :
          (scrape_tasks[g].pc \in {"queued", "loop", "scraping", "closing"}
             /\ scrape_tasks[g].stop = "answered")
          => /\ scrape_tasks'[g].pc = "scraping" => scrape_tasks[g].pc = "scraping"
             /\ scrape_tasks'[g].pc = "finished" => ~us_scrape_progress'.running]_vars

====
